---------------------------- MODULE Spec2Model ----------------------------
(***************************************************************************)
(* A model of the Propertyware extraction pipeline:                        *)
(*   Grid Harvester      src/step3_rows_sample.py                          *)
(*   Detail Enricher     src/step4_opening_url.py, src/pw_common.py        *)
(*   Reconciler          src/step5_other_details.py,                       *)
(*                       src/step5_generate_notices.py                     *)
(*   Document Generator  src/steps/step6_generate.py                       *)
(* Each stage is a separate process reading the previous stage's artifact, *)
(* so each stage has its own specification (SpecHarvest, SpecEnrich,       *)
(* SpecReconcile, SpecGenerate) over its own variables; the variables of   *)
(* the other stages stay at their idle values.  Further specifications    *)
(* cover single parts of the program: SpecScript (src/step6_generate.py),  *)
(* SpecOrchestrator (src/main.py), SpecWriter (the csv writes), SpecOwner  *)
(* (scrape_second_owner_name), SpecReplace (token replacement), SpecCity   *)
(* (city_from_tenant_address), SpecAmount (money_fmt and reruns), SpecGoto *)
(* (smart_goto), SpecPaging (load_all_rows and click_next_page),           *)
(* SpecSession (the browser context of steps 3 and 4), SpecCli (the        *)
(* --steps argument and the exit status of both orchestrators) and         *)
(* SpecStream (stream_cmd of the UI).                                      *)
(*              *)
(* Text is a sequence of one-character strings, so that strip(), lower(),  *)
(* re.sub(), substring tests and concatenation are computed as the code    *)
(* computes them.                                                          *)
(***************************************************************************)
EXTENDS Integers, Sequences, FiniteSets, TLC

VARIABLES
    \* ---- Grid Harvester (step3_rows_sample.main) ----
    s3_pc,          \* "start" | "rows" | "done" | "failed"
    s3_pages,       \* pages
    s3_page_rows,   \* out of process_current_page for the page being read
    s3_out_rows,    \* out_rows
    s3_seen_leases, \* seen_leases
    s3_status,      \* the status dict: ok, pages_processed, rows_out, error
    s3_csv,         \* rows_sample.csv: whether this run wrote it, and its rows
    s3_last,        \* history: the last row read: what the specification says
                    \*   of its two texts, and whether the code kept it
    s3_first,       \* history: first qualifying row seen for each identity
    s3_nread,       \* history: number of grid rows read so far (bounds the run)
    s3_nkept,       \* history: number of grid rows that passed the filter
    \* ---- Detail Enricher (step4_opening_url.main) ----
    s4_pc,          \* position in main
    s4_rows,        \* rows: the candidates read from rows_sample.csv
    s4_site,        \* the application: lease href -> text beside "Total Unpaid"
    s4_idx,         \* position of the loop over rows (1-based)
    s4_out_rows,    \* out_rows
    s4_status,      \* the status dict
    s4_cache_unit_addr,   \* cache_unit_addr
    s4_cache_owner_name,  \* cache_owner_name
    s4_nav,         \* the smart_goto call in progress: target, attempt, page shown
    s4_cur,         \* locals of the loop body for the current candidate
    s4_csv,         \* rows_step4.csv: whether this run wrote it, and its rows
    s4_log,         \* history: what happened to each candidate reached
    \* ---- Reconciler (step5_other_details.main, step5_generate_notices.main) ----
    s5_copy,        \* which of the two scripts runs
    s5_pc,          \* position in main
    s5_step3_rows,  \* rows_sample.csv: the candidate population
    s5_step4_rows,  \* rows_step4.csv: the enriched records
    s5_maps,        \* the three look-up structures built from the population
    s5_idx,         \* position of the loop over the enriched records (1-based)
    s5_out_rows,    \* out_rows
    s5_status,      \* the status dict
    s5_csv,         \* the notices csv: whether this run wrote it, and its rows
    \* ---- Document Generator (steps/step6_generate.main) ----
    s6_pc,          \* position in main
    s6_rows,        \* rows: the notices csv
    s6_idx,         \* position of the loop over rows (1-based)
    s6_used_names,  \* used_names
    s6_files,       \* the output folder: path -> the document saved there
    s6_made,        \* made
    s6_outputs,     \* outputs
    s6_status,      \* the status printed
    s6_saved,       \* history: the saves that succeeded, in order
    \* ---- Document Generator, the script main.py runs (src/step6_generate.py) ----
    gs_pc,          \* position in the script
    gs_rows,        \* rows: the notices csv
    gs_idx,         \* idx of the loop over rows (1-based)
    gs_folder,      \* OUT_DIR: file name -> the document saved there
    gs_printed,     \* the dicts printed, in order
    gs_made,        \* history: the rows whose document was saved, in order
    \* ---- Orchestrator (src/main.py main) ----
    o_pc,           \* "loop" | "exit0" | "exit1"
    o_steps_to_run, \* steps_to_run
    o_continue_on_error,  \* args.continue_on_error
    o_pos,          \* position of the loop over steps_to_run (1-based)
    o_any_fail,     \* any_fail
    o_disk,         \* data/debug: the artifacts there, <<>> absent, <<n>> n rows
    o_log,          \* history: the steps started, how each ended, its return code
    \* ---- Writing an output artifact (step3, step4, rxtract._safe_write_csv) ----
    w_pc,           \* position in the writing code
    w_who,          \* which writer runs
    w_rows,         \* the rows to write
    w_out,          \* OUT_CSV on disk: whether it exists, and its lines
    w_tmp,          \* the .tmp.csv beside it (rxtract only)
    w_alt,          \* the time-stamped file written when OUT_CSV is locked
    w_buf,          \* lines written to the open file object, not yet on disk
    w_n,            \* number of lines handed to the file object so far
    w_prev,         \* history: OUT_CSV as it was before the writer started
    \* ---- Owner resolution (step4_opening_url.scrape_second_owner_name) ----
    ow_pc,          \* "start" | "done"
    ow_page,        \* the portfolio page shown
    ow_out,         \* what scrape_second_owner_name returned
    \* ---- Token replacement (steps/step6_generate.py, the try block of main) ----
    rp_pc,          \* "open" | "replace" | "done"
    rp_template,    \* the paragraphs of the template, in the order they are visited
    rp_rows,        \* rows: the notices csv
    rp_row,         \* position of the loop over rows (1-based)
    rp_doc,         \* doc: the paragraphs of the document being made
    rp_pos,         \* the paragraph replace_placeholders_with_underlines is at
    rp_seen,        \* seen_counts
    rp_docs,        \* history: the documents saved, in order
    \* ---- City derivation (city_from_tenant_address, both copies) ----
    ci_pc,          \* "start" | "done"
    ci_copy,        \* which copy is called
    ci_addr,        \* addr
    ci_out,         \* what the function returned
    \* ---- Amount formatting and the bindings of a rerun ----
    am_pc,          \* "reconcile" | "generate"
    am_val,         \* total_unpaid of the enriched record
    am_row,         \* the row of the notices csv
    am_runs,        \* history: what each run of the Document Generator bound
    \* ---- smart_goto (step4_opening_url.py), step by step ----
    sg_pc,          \* position in smart_goto
    sg_attempt,     \* attempt
    sg_navs,        \* page.goto calls for the target in this attempt
    sg_logins,      \* login(page) calls so far
    sg_trace,       \* history: how each attempt ended
    sg_result,      \* what smart_goto returned or raised
    \* ---- Paging of the Grid Harvester (load_all_rows, click_next_page) ----
    pg_pc,          \* position in the page loop
    pg_pages,       \* pages
    pg_scrolls,     \* load_all_rows: scroll attempts made on this page
    pg_last,        \* load_all_rows: last
    pg_same,        \* load_all_rows: same_count_rounds
    pg_load_end,    \* history: how load_all_rows ended on this page
    pg_total,       \* history: rows read on this page
    pg_out,         \* number of rows in out_rows
    pg_btn,         \* click_next_page: the control found
    pg_before,      \* click_next_page: cnt_before and sig_before
    pg_polls,       \* click_next_page: polls made
    pg_click,       \* history: what became of btn.click() on this page
    pg_seen,        \* history: what the last poll saw
    pg_status,      \* the status dict
    pg_csv,         \* rows_sample.csv: whether written and with how many rows
    \* ---- The browser context of a stage (step3 main, step4 main) ----
    ss_stage,       \* which stage runs
    ss_pc,          \* position in main
    ss_ctx,         \* the context: "none" | "open" | "closed"
    ss_closes,      \* history: calls of context.close()
    ss_path,        \* how the try block was left
    ss_work,        \* history: how each page or candidate ended
    ss_late,        \* history: a page call was made while the context was not open
    \* ---- The orchestrators' command lines (main.py, pw_auto/orchestrator.py) ----
    cl_which,       \* which orchestrator runs
    cl_arg,         \* the text given to --steps
    cl_continue,    \* --continue-on-error
    cl_pc,          \* position in main / cli
    cl_parsed,      \* history: how the parsing of --steps ended
    cl_steps,       \* steps_to_run / steps
    cl_pos,         \* position of the loop over the steps (1-based)
    cl_fail,        \* any_fail (0 or 1) / overall
    cl_log,         \* history: the steps started and how each ended
    cl_exit,        \* the exit status
    \* ---- stream_cmd of the UI (pw_auto/ui_app.py) ----
    sc_worker,      \* position of the worker thread
    sc_loop,        \* position of the consuming loop
    sc_proc,        \* the subprocess: none / running / closed (its output) / terminated
    sc_pipe,        \* lines written to the pipe and not yet read
    sc_line,        \* line (the worker)
    sc_q,           \* q
    sc_lines,       \* lines (the log)
    sc_code,        \* proc.returncode
    sc_produced,    \* history: every line the subprocess wrote
    sc_read_raised, \* history: reading proc.stdout raised
    sc_puts         \* history: every item put on the queue

varsH == <<s3_pc, s3_pages, s3_page_rows, s3_out_rows, s3_seen_leases,
           s3_status, s3_csv, s3_last, s3_first, s3_nread, s3_nkept>>

varsE == <<s4_pc, s4_rows, s4_site, s4_idx, s4_out_rows, s4_status,
           s4_cache_unit_addr, s4_cache_owner_name, s4_nav, s4_cur, s4_csv, s4_log>>

varsR == <<s5_copy, s5_pc, s5_step3_rows, s5_step4_rows, s5_maps, s5_idx,
           s5_out_rows, s5_status, s5_csv>>

varsG == <<s6_pc, s6_rows, s6_idx, s6_used_names, s6_files, s6_made,
           s6_outputs, s6_status, s6_saved>>

varsS == <<gs_pc, gs_rows, gs_idx, gs_folder, gs_printed, gs_made>>

\* the variables added after the four stages
varsO == <<o_pc, o_steps_to_run, o_continue_on_error, o_pos, o_any_fail,
           o_disk, o_log>>

varsW == <<w_pc, w_who, w_rows, w_out, w_tmp, w_alt, w_buf, w_n, w_prev>>

varsOw == <<ow_pc, ow_page, ow_out>>

varsRp == <<rp_pc, rp_template, rp_rows, rp_row, rp_doc, rp_pos, rp_seen, rp_docs>>

varsCi == <<ci_pc, ci_copy, ci_addr, ci_out>>

varsAm == <<am_pc, am_val, am_row, am_runs>>

varsSg == <<sg_pc, sg_attempt, sg_navs, sg_logins, sg_trace, sg_result>>

varsPg == <<pg_pc, pg_pages, pg_scrolls, pg_last, pg_same, pg_load_end, pg_total, pg_out, pg_btn, pg_before, pg_polls, pg_click, pg_seen, pg_status, pg_csv>>

varsSs == <<ss_stage, ss_pc, ss_ctx, ss_closes, ss_path, ss_work, ss_late>>

varsCl == <<cl_which, cl_arg, cl_continue, cl_pc, cl_parsed, cl_steps, cl_pos, cl_fail, cl_log, cl_exit>>

varsSc == <<sc_worker, sc_loop, sc_proc, sc_pipe, sc_line, sc_q, sc_lines, sc_code, sc_produced, sc_read_raised, sc_puts>>

varsMore == <<varsS, varsO, varsW, varsOw, varsRp, varsCi, varsAm, varsSg, varsPg, varsSs, varsCl, varsSc>>

vars == <<varsH, varsE, varsR, varsG, varsMore>>

\* what a stage leaves alone: the variables of the other stages
varsNotH == <<varsE, varsR, varsG, varsMore>>
varsNotE == <<varsH, varsR, varsG, varsMore>>
varsNotR == <<varsH, varsE, varsG, varsMore>>
varsNotG == <<varsH, varsE, varsR, varsMore>>
varsStages == <<varsH, varsE, varsR, varsG>>
varsNotS == <<varsStages, varsO, varsW, varsOw, varsRp, varsCi, varsAm, varsSg, varsPg, varsSs, varsCl, varsSc>>
varsNotO == <<varsStages, varsS, varsW, varsOw, varsRp, varsCi, varsAm, varsSg, varsPg, varsSs, varsCl, varsSc>>
varsNotW == <<varsStages, varsS, varsO, varsOw, varsRp, varsCi, varsAm, varsSg, varsPg, varsSs, varsCl, varsSc>>
varsNotOw == <<varsStages, varsS, varsO, varsW, varsRp, varsCi, varsAm, varsSg, varsPg, varsSs, varsCl, varsSc>>
varsNotRp == <<varsStages, varsS, varsO, varsW, varsOw, varsCi, varsAm, varsSg, varsPg, varsSs, varsCl, varsSc>>
varsNotCi == <<varsStages, varsS, varsO, varsW, varsOw, varsRp, varsAm, varsSg, varsPg, varsSs, varsCl, varsSc>>
varsNotAm == <<varsStages, varsS, varsO, varsW, varsOw, varsRp, varsCi, varsSg, varsPg, varsSs, varsCl, varsSc>>
varsNotSg == <<varsStages, varsS, varsO, varsW, varsOw, varsRp, varsCi, varsAm, varsPg, varsSs, varsCl, varsSc>>
varsNotPg == <<varsStages, varsS, varsO, varsW, varsOw, varsRp, varsCi, varsAm, varsSg, varsSs, varsCl, varsSc>>
varsNotSs == <<varsStages, varsS, varsO, varsW, varsOw, varsRp, varsCi, varsAm, varsSg, varsPg, varsCl, varsSc>>
varsNotCl == <<varsStages, varsS, varsO, varsW, varsOw, varsRp, varsCi, varsAm, varsSg, varsPg, varsSs, varsSc>>
varsNotSc == <<varsStages, varsS, varsO, varsW, varsOw, varsRp, varsCi, varsAm, varsSg, varsPg, varsSs, varsCl>>

-----------------------------------------------------------------------------
(* Text helpers: Python's str methods and the regular expressions used.    *)

UpperChars == <<"A","B","C","D","E","F","G","H","I","J","K","L","M",
                "N","O","P","Q","R","S","T","U","V","W","X","Y","Z">>
LowerChars == <<"a","b","c","d","e","f","g","h","i","j","k","l","m",
                "n","o","p","q","r","s","t","u","v","w","x","y","z">>

\* str.lower() on one character
LowerOf == [u \in {UpperChars[i] : i \in 1..Len(UpperChars)} |->
               LowerChars[CHOOSE i \in 1..Len(UpperChars) : UpperChars[i] = u]]

lower_ch(c) == IF c \in DOMAIN LowerOf THEN LowerOf[c] ELSE c

\* str.lower()
lower(s) == [i \in 1..Len(s) |-> lower_ch(s[i])]

\* the class \s of re, and the characters str.strip() removes
IsSpace(c) == c \in {" ", "\t", "\n", "\r"}

\* str.strip()
strip(s) ==
    IF \A i \in 1..Len(s) : IsSpace(s[i]) THEN <<>>
    ELSE LET a == CHOOSE i \in 1..Len(s) :
                     ~IsSpace(s[i]) /\ \A j \in 1..(i-1) : IsSpace(s[j])
             b == CHOOSE i \in 1..Len(s) :
                     ~IsSpace(s[i]) /\ \A j \in (i+1)..Len(s) : IsSpace(s[j])
         IN  SubSeq(s, a, b)

\* Python's  w in t
contains(t, w) ==
    \E i \in 0..(Len(t) - Len(w)) : SubSeq(t, i + 1, i + Len(w)) = w

RECURSIVE lstrip(_)
lstrip(s) == IF s # <<>> /\ IsSpace(Head(s)) THEN lstrip(Tail(s)) ELSE s

\* re.sub(r"\s+", " ", s)
RECURSIVE collapse_ws(_)
collapse_ws(s) ==
    IF s = <<>> THEN <<>>
    ELSE IF IsSpace(Head(s)) THEN <<" ">> \o collapse_ws(lstrip(Tail(s)))
    ELSE <<Head(s)>> \o collapse_ws(Tail(s))

-----------------------------------------------------------------------------
(* Grid Harvester: src/step3_rows_sample.py                                *)

W_occupied     == <<"o","c","c","u","p","i","e","d">>
W_alameda      == <<"a","l","a","m","e","d","a">>
W_contra       == <<"c","o","n","t","r","a">>
W_costa        == <<"c","o","s","t","a">>
W_contra_costa == W_contra \o <<" ">> \o W_costa

is_occupied(text) == contains(lower(strip(text)), W_occupied)

county_ok(text) ==
    LET t == lower(strip(collapse_ws(text)))
    IN  contains(t, W_alameda) \/ contains(t, W_contra_costa)

-----------------------------------------------------------------------------
(* Bounds of the harvest runs explored.                                    *)
MaxGridRows == 3     \* grid rows read in one run, over all pages
MaxPages    == 2     \* pages visited in one run

(* The grid: cell texts as inner_text() returns them, link cells as        *)
(* extract_link_text_href returns them (anchor text, normalized href; the  *)
(* href is empty when the cell holds no anchor).  Hrefs are the            *)
(* application's entity links.                                             *)
StatusTexts ==
    { <<"O","c","c","u","p","i","e","d">>,
      <<" ","O","C","C","U","P","I","E","D"," ","-"," ","R","e","n","e","w","a","l">>,
      <<"V","a","c","a","n","t">>,
      <<>> }

CountyTexts ==
    { <<"A","l","a","m","e","d","a"," ">>,
      <<"C","O","N","T","R","A"," ","\n","C","o","s","t","a">>,
      <<"C","o","n","t","r","a","C","o","s","t","a">>,
      <<"S","o","l","a","n","o">> }

U1 == <<"U","1">>
U2 == <<"U","2">>
P1 == <<"P","1">>
P2 == <<"P","2">>
L1 == <<"L","1">>

LinkCells ==
    { [unit_name |-> <<"u">>, unit_href |-> U1, portfolio_name |-> <<"p">>,
       portfolio_href |-> P1, lease_name |-> <<"a">>, lease_href |-> L1],
      [unit_name |-> <<"v">>, unit_href |-> U2, portfolio_name |-> <<"p">>,
       portfolio_href |-> P1, lease_name |-> <<"b">>, lease_href |-> L1],
      [unit_name |-> <<"u">>, unit_href |-> U1, portfolio_name |-> <<"p">>,
       portfolio_href |-> P1, lease_name |-> <<>>, lease_href |-> <<>>],
      [unit_name |-> <<"u">>, unit_href |-> U1, portfolio_name |-> <<"p">>,
       portfolio_href |-> P1, lease_name |-> <<"c">>, lease_href |-> <<>>],
      [unit_name |-> <<"u">>, unit_href |-> U1, portfolio_name |-> <<"q">>,
       portfolio_href |-> P2, lease_name |-> <<>>, lease_href |-> <<>>] }

GridRows ==
    { [status |-> st, county |-> ct, links |-> lk] :
        st \in StatusTexts, ct \in CountyTexts, lk \in LinkCells }

Occupied == <<"O","c","c","u","p","i","e","d">>

\* the dict appended by process_current_page for a row that passed
CandidateRecord(row) ==
    [unit_name      |-> row.links.unit_name,
     unit_href      |-> row.links.unit_href,
     portfolio_name |-> row.links.portfolio_name,
     portfolio_href |-> row.links.portfolio_href,
     lease_name     |-> row.links.lease_name,
     lease_href     |-> row.links.lease_href,
     status         |-> Occupied,
     building_county |-> strip(row.county)]

\* A mutation of row_passes: a row passes when either predicate holds.
row_passes_either(row) ==
    is_occupied(strip(row.status)) \/ county_ok(strip(row.county))

\* the two guards of the row loop of process_current_page
row_passes(row) ==
    is_occupied(strip(row.status)) /\ county_ok(strip(row.county))

\* A mutation of dedup_key: the key is the lease link alone.
dedup_key_lease_only(r) == r.lease_href

\* key = r.get("lease_href") or (r.get("unit_href") + "|" + r.get("portfolio_href"))
dedup_key(r) ==
    IF r.lease_href # <<>> THEN r.lease_href
    ELSE r.unit_href \o <<"|">> \o r.portfolio_href

\* the de-dup loop of main over page_rows
RECURSIVE dedup(_, _, _)
dedup(page_rows, out_rows, seen) ==
    IF page_rows = <<>> THEN [out_rows |-> out_rows, seen |-> seen]
    ELSE LET r   == Head(page_rows)
             key == dedup_key(r)
         IN  IF key # <<>> /\ key \in seen
             THEN dedup(Tail(page_rows), out_rows, seen)
             ELSE dedup(Tail(page_rows), Append(out_rows, r), seen \cup {key})

(* The identity of a candidate as the data model states it: the lease link *)
(* when present, otherwise the pair of unit link and portfolio link.       *)
Identity(r) ==
    IF r.lease_href # <<>> THEN <<"lease", r.lease_href>>
    ELSE <<"pair", r.unit_href, r.portfolio_href>>

(* The filter as the specification states it, on the raw cell texts:       *)
(* "occupied" occurs in the status text in any letter case, and "alameda"  *)
(* or "contra", whitespace, "costa" occurs in the jurisdiction text.       *)
MatchAt(text, i, w) ==
    /\ i >= 1 /\ i + Len(w) - 1 <= Len(text)
    /\ \A k \in 1..Len(w) : lower_ch(text[i + k - 1]) = w[k]

StatusQualifies(text) == \E i \in 1..Len(text) : MatchAt(text, i, W_occupied)

JurisdictionQualifies(text) ==
    \/ \E i \in 1..Len(text) : MatchAt(text, i, W_alameda)
    \/ \E i \in 1..Len(text), j \in 1..Len(text) :
          /\ MatchAt(text, i, W_contra)
          /\ j > i + Len(W_contra)
          /\ \A k \in (i + Len(W_contra))..(j - 1) : IsSpace(text[k])
          /\ MatchAt(text, j, W_costa)

\* the two verdicts of the specification, tabulated over the grid's texts
StatusVerdict == [st \in StatusTexts |-> StatusQualifies(st)]
JurisdictionVerdict == [ct \in CountyTexts |-> JurisdictionQualifies(ct)]

Qualifies(row) == StatusVerdict[row.status] /\ JurisdictionVerdict[row.county]

HarvestStatus0 == [ok |-> FALSE, pages_processed |-> 0, rows_out |-> 0, error |-> FALSE]

IdleH ==
    /\ s3_pc = "idle" /\ s3_pages = 0 /\ s3_page_rows = <<>> /\ s3_out_rows = <<>>
    /\ s3_seen_leases = {} /\ s3_status = HarvestStatus0
    /\ s3_csv = [written |-> FALSE, rows |-> <<>>]
    /\ s3_last = [status_ok |-> FALSE, county_ok |-> FALSE, kept |-> FALSE]
    /\ s3_first = {} /\ s3_nread = 0 /\ s3_nkept = 0

HarvestStart ==
    /\ s3_pc = "start" /\ s3_pages = 0 /\ s3_page_rows = <<>> /\ s3_out_rows = <<>>
    /\ s3_seen_leases = {} /\ s3_status = HarvestStatus0
    /\ s3_csv = [written |-> FALSE, rows |-> <<>>]
    /\ s3_last = [status_ok |-> FALSE, county_ok |-> FALSE, kept |-> FALSE]
    /\ s3_first = {} /\ s3_nread = 0 /\ s3_nkept = 0

\* main, lines 272-310: login, open the list, map the headers, resolve the
\* five columns; any exception (RuntimeError "Required columns missing"
\* included) ends in the except clause.  On success the page loop is entered.
H_Open(ok) ==
    /\ s3_pc = "start"
    /\ IF ok
       THEN /\ s3_pc' = "rows"
            /\ s3_pages' = 1
            /\ UNCHANGED s3_status
       ELSE /\ s3_pc' = "failed"
            /\ s3_status' = [s3_status EXCEPT !.error = TRUE]
            /\ UNCHANGED s3_pages
    /\ UNCHANGED <<s3_page_rows, s3_out_rows, s3_seen_leases, s3_csv,
                   s3_last, s3_first, s3_nread, s3_nkept>>
    /\ UNCHANGED varsNotH

\* process_current_page, one iteration of the row loop (lines 227-253)
H_ReadRow(row) ==
    /\ s3_pc = "rows"
    /\ s3_nread < MaxGridRows
    /\ s3_nread' = s3_nread + 1
    /\ s3_page_rows' = IF row_passes(row)
                       THEN Append(s3_page_rows, CandidateRecord(row))
                       ELSE s3_page_rows
    /\ s3_nkept' = IF s3_page_rows' # s3_page_rows THEN s3_nkept + 1 ELSE s3_nkept
    /\ s3_last' = [status_ok |-> StatusVerdict[row.status],
                    county_ok |-> JurisdictionVerdict[row.county],
                    kept |-> s3_page_rows' # s3_page_rows]
    /\ s3_first' = IF Qualifies(row)
                      /\ ~\E f \in s3_first : f.id = Identity(row.links)
                   THEN s3_first \cup {[id |-> Identity(row.links),
                                         links |-> row.links,
                                         county |-> strip(row.county)]}
                   ELSE s3_first
    /\ UNCHANGED <<s3_pc, s3_pages, s3_out_rows, s3_seen_leases, s3_status, s3_csv>>
    /\ UNCHANGED varsNotH

\* main, lines 311-337: the page's rows are de-duplicated into out_rows and
\* click_next_page is tried; when it returns False the csv is written.
H_EndPage(next) ==
    /\ s3_pc = "rows"
    /\ LET d == dedup(s3_page_rows, s3_out_rows, s3_seen_leases)
       IN  /\ s3_out_rows' = d.out_rows
           /\ s3_seen_leases' = d.seen
           /\ s3_page_rows' = <<>>
           /\ IF next /\ s3_pages < MaxPages
              THEN /\ s3_pages' = s3_pages + 1
                   /\ UNCHANGED <<s3_pc, s3_status, s3_csv>>
              ELSE /\ s3_pc' = "done"
                   /\ s3_csv' = [written |-> TRUE, rows |-> d.out_rows]
                   /\ s3_status' = [s3_status EXCEPT !.ok = TRUE,
                                       !.pages_processed = s3_pages,
                                       !.rows_out = Len(d.out_rows)]
                   /\ UNCHANGED s3_pages
    /\ UNCHANGED <<s3_last, s3_first, s3_nread, s3_nkept>>
    /\ UNCHANGED varsNotH

\* main, lines 339-341: an exception raised while a page is processed
H_Fail ==
    /\ s3_pc = "rows"
    /\ s3_pc' = "failed"
    /\ s3_status' = [s3_status EXCEPT !.error = TRUE]
    /\ UNCHANGED <<s3_pages, s3_page_rows, s3_out_rows, s3_seen_leases, s3_csv,
                   s3_last, s3_first, s3_nread, s3_nkept>>
    /\ UNCHANGED varsNotH

NextHarvest ==
    \/ \E ok \in BOOLEAN : H_Open(ok)
    \/ \E row \in GridRows : H_ReadRow(row)
    \/ \E next \in BOOLEAN : H_EndPage(next)
    \/ H_Fail

-----------------------------------------------------------------------------
(* Numbers as text.  A float amount is held as an integer number of        *)
(* thousandths; the texts read carry at most three decimals.               *)

Digits == <<"0","1","2","3","4","5","6","7","8","9">>
IsDigit(c) == \E i \in 1..Len(Digits) : Digits[i] = c
DigitVal(c) == (CHOOSE i \in 1..Len(Digits) : Digits[i] = c) - 1

\* the value of a run of decimal digits
RECURSIVE DigitsVal(_)
DigitsVal(ds) ==
    IF ds = <<>> THEN 0
    ELSE 10 * DigitsVal(SubSeq(ds, 1, Len(ds) - 1)) + DigitVal(ds[Len(ds)])

\* str(n) for n >= 0
RECURSIVE ToDec(_)
ToDec(n) == IF n < 10 THEN <<Digits[n + 1]>>
            ELSE ToDec(n \div 10) \o <<Digits[(n % 10) + 1]>>

\* float(t) accepts t: an optional leading "-", digits with at most one "."
\* and at least one digit (t holds only digits, "." and "-")
ValidFloat(t) ==
    LET body == IF t # <<>> /\ Head(t) = "-" THEN Tail(t) ELSE t
    IN  /\ \A i \in 1..Len(body) : body[i] # "-"
        /\ Cardinality({i \in 1..Len(body) : body[i] = "."}) <= 1
        /\ \E i \in 1..Len(body) : IsDigit(body[i])

\* float(t) in thousandths, for an accepted t
FloatMills(t) ==
    LET neg  == Head(t) = "-"
        body == IF neg THEN Tail(t) ELSE t
        dots == {i \in 1..Len(body) : body[i] = "."}
        dot  == IF dots = {} THEN Len(body) + 1 ELSE CHOOSE i \in dots : TRUE
        int  == SubSeq(body, 1, dot - 1)
        frac == SubSeq(body, dot + 1, Len(body))
        fr3  == SubSeq(frac \o <<"0","0","0">>, 1, 3)
        v    == 1000 * DigitsVal(int) + DigitsVal(fr3)
    IN  IF neg THEN 0 - v ELSE v

\* pw_common.safe_float
safe_float(text) ==
    IF text = <<>> THEN 0
    ELSE LET t == SelectSeq(text, LAMBDA c : IsDigit(c) \/ c \in {".", "-"})
         IN  IF t # <<>> /\ ValidFloat(t) THEN FloatMills(t) ELSE 0

\* f"{amount:.2f}" for amount >= 0: rounded to the nearest hundredth
Format2f(mills) ==
    LET cents == (mills + 5) \div 10
        c2    == cents % 100
    IN  ToDec(cents \div 100) \o <<".">> \o <<Digits[(c2 \div 10) + 1]>>
            \o <<Digits[(c2 % 10) + 1]>>

-----------------------------------------------------------------------------
(* Detail Enricher: src/step4_opening_url.py                               *)

MAX_QUALIFIERS == 10
max_tries      == 3
ThresholdMills == 1000000      \* the 1000.0 of  amount <= 1000.0

(* Bounds of the enrichment runs explored.  Runs of at most MaxRows        *)
(* candidates are explored with every navigation outcome and every text;   *)
(* longer runs, which reach MAX_QUALIFIERS records, are explored without   *)
(* navigation faults.                                                      *)
MaxRows  == 2     \* candidates of a run explored with faults
MaxExtra == 1     \* candidates beyond MAX_QUALIFIERS in a long run

L2 == <<"L","2">>

T_1000_00 == <<"$","1",",","0","0","0",".","0","0">>
T_1000_01 == <<"$","1",",","0","0","0",".","0","1">>

\* texts found beside the unpaid label of a lease page
UnpaidTexts ==
    { T_1000_00, T_1000_01,
      <<"1","0","0","0",".","0","0","4">>,
      <<"-","$","2",",","0","0","0",".","0","0">>,
      <<"2",",","0","0","0",".","0","0","-">>,
      <<>> }

TenantTexts == { <<" ","T","1">> }
AddressTexts == { <<>>, <<"A","1"," ">> }
OwnerTexts == { <<>>, <<"O","1">> }

\* rows of rows_sample.csv, with the columns main reads
Candidates ==
    { [lease_href |-> L1, unit_href |-> U1, portfolio_href |-> P1, lease_name |-> <<"a">>],
      [lease_href |-> L2, unit_href |-> U1, portfolio_href |-> P1, lease_name |-> <<"b">>],
      [lease_href |-> <<>>, unit_href |-> U2, portfolio_href |-> P1, lease_name |-> <<"c">>] }

ShortInputs ==
    UNION { { q \in [1..n -> Candidates] : \A i, j \in 1..n : q[i] = q[j] => i = j }
            : n \in 0..MaxRows }

LongLease(i) == <<"L">> \o ToDec(i)

LongInputs ==
    { [i \in 1..n |-> [lease_href |-> LongLease(i), unit_href |-> <<>>,
                       portfolio_href |-> <<>>, lease_name |-> <<"a">>]]
      : n \in MAX_QUALIFIERS..(MAX_QUALIFIERS + MaxExtra) }

LeasesOf(rows) == {rows[i].lease_href : i \in 1..Len(rows)} \ {<<>>}

\* what the lease pages of the candidates show
SitesOf(rows) ==
    IF Len(rows) <= MaxRows
    THEN [LeasesOf(rows) -> UnpaidTexts]
    ELSE { [l \in LeasesOf(rows) |-> IF l = LongLease(j) THEN T_1000_00 ELSE T_1000_01]
           : j \in 0..Len(rows) }

FaultsExplored == Len(s4_rows) <= MaxRows

EnrichStatus0 ==
    [ok |-> FALSE, rows_in |-> 0, rows_written |-> 0,
     skipped_total_unpaid_le_1000 |-> 0, errors |-> 0]

NoNav == [target |-> "none", attempt |-> 0, page |-> "none"]

NoCur ==
    [lease_url |-> <<>>, unit_url |-> <<>>, portfolio_url |-> <<>>, lease_name |-> <<>>,
     amount |-> 0, tenant_name |-> <<>>, unit_address |-> <<>>, owner_name |-> <<>>,
     \* history of the candidate
     lease_nav |-> "none", read |-> FALSE, tenant_raised |-> FALSE,
     unit_nav |-> "none", portfolio_nav |-> "none"]

EmptyMap == [u \in {} |-> <<>>]

IdleE ==
    /\ s4_pc = "idle" /\ s4_rows = <<>> /\ s4_site = EmptyMap /\ s4_idx = 0
    /\ s4_out_rows = <<>> /\ s4_status = EnrichStatus0
    /\ s4_cache_unit_addr = EmptyMap /\ s4_cache_owner_name = EmptyMap
    /\ s4_nav = NoNav /\ s4_cur = NoCur
    /\ s4_csv = [written |-> FALSE, rows |-> <<>>] /\ s4_log = <<>>

\* main, lines 323-367: the input is read, the caches are empty
EnrichStart ==
    /\ s4_pc = "login"
    /\ s4_rows \in ShortInputs \cup LongInputs
    /\ s4_site \in SitesOf(s4_rows)
    /\ s4_idx = 1
    /\ s4_out_rows = <<>>
    /\ s4_status = [EnrichStatus0 EXCEPT !.rows_in = Len(s4_rows)]
    /\ s4_cache_unit_addr = EmptyMap /\ s4_cache_owner_name = EmptyMap
    /\ s4_nav = NoNav /\ s4_cur = NoCur
    /\ s4_csv = [written |-> FALSE, rows |-> <<>>] /\ s4_log = <<>>

\* A mutation of Get: the dict never holds the key.
Get_forgetful(map, key) == <<>>

\* dict.get(key, "")
Get(map, key) == IF key \in DOMAIN map THEN map[key] ELSE <<>>

\* d[key] = value
Put(map, key, value) ==
    [k \in DOMAIN map \cup {key} |-> IF k = key THEN value ELSE map[k]]

\* the history entry of the current candidate
LogEntry(cur, fate) ==
    [idx |-> s4_idx, lease_url |-> cur.lease_url, lease_nav |-> cur.lease_nav,
     read |-> cur.read, amount |-> cur.amount, tenant_raised |-> cur.tenant_raised,
     unit_nav |-> cur.unit_nav, portfolio_nav |-> cur.portfolio_nav,
     unit_address |-> cur.unit_address, owner_name |-> cur.owner_name, fate |-> fate]

(* One iteration of the for loop of smart_goto.  The page's behaviour:     *)
(*   ok        the first goto succeeds, no login surface is detected       *)
(*   relogin   the first goto succeeds, a login surface is detected and    *)
(*             login(page) returns                                         *)
(*   t_ok      PWTimeout in the first block; the fallback goto succeeds    *)
(*   t_relogin PWTimeout in the first block; the fallback goto succeeds    *)
(*             and a login surface is detected                             *)
(*   t_t       PWTimeout in the first block and in the fallback block      *)
(*   error     an exception other than PWTimeout                           *)
GotoOutcomes == {"ok", "relogin", "t_ok", "t_relogin", "t_t", "error"}

\* "true"/"false": smart_goto returns; "raise": it raises; "retry": next attempt
smart_goto_attempt(attempt, outcome) ==
    CASE outcome \in {"ok", "t_ok"} -> "true"
      [] outcome \in {"relogin", "t_relogin"} ->
            IF attempt = max_tries THEN "false" ELSE "retry"
      [] outcome = "t_t" ->
            IF attempt = max_tries THEN "raise" ELSE "retry"
      [] outcome = "error" -> "raise"

\* A mutation of below_threshold: the boundary amount is let through.
below_threshold_strict(amount) == amount < ThresholdMills

\* amount <= 1000.0
below_threshold(amount) == amount <= ThresholdMills

\* A mutation of cap_reached: the cap is off by one.
cap_reached_late(n) == n > MAX_QUALIFIERS

\* len(out_rows) >= MAX_QUALIFIERS
cap_reached(n) == n >= MAX_QUALIFIERS

\* main, line 369: login(page); an exception leaves main through the finally
E_Login(ok) ==
    /\ s4_pc = "login"
    /\ s4_pc' = IF ok THEN "next" ELSE "crashed"
    /\ UNCHANGED <<s4_rows, s4_site, s4_idx, s4_out_rows, s4_status,
                   s4_cache_unit_addr, s4_cache_owner_name, s4_nav, s4_cur,
                   s4_csv, s4_log>>
    /\ UNCHANGED varsNotE

\* main, lines 371-383: the loop header, the cap, the lease link test and
\* the call of smart_goto for the lease page
E_Next ==
    /\ s4_pc = "next"
    /\ IF s4_idx > Len(s4_rows) \/ cap_reached(Len(s4_out_rows))
       THEN /\ s4_pc' = "finish"
            /\ UNCHANGED <<s4_idx, s4_nav, s4_cur, s4_log>>
       ELSE LET r   == s4_rows[s4_idx]
                cur == [NoCur EXCEPT !.lease_url = strip(r.lease_href),
                                     !.unit_url = strip(r.unit_href),
                                     !.portfolio_url = strip(r.portfolio_href),
                                     !.lease_name = strip(r.lease_name)]
            IN  IF cur.lease_url = <<>>
                THEN /\ s4_idx' = s4_idx + 1
                     /\ s4_log' = Append(s4_log, LogEntry(cur, "nolease"))
                     /\ UNCHANGED <<s4_pc, s4_nav, s4_cur>>
                ELSE /\ s4_pc' = "goto"
                     /\ s4_nav' = [target |-> "lease", attempt |-> 1, page |-> "none"]
                     /\ s4_cur' = cur
                     /\ UNCHANGED <<s4_idx, s4_log>>
    /\ UNCHANGED <<s4_rows, s4_site, s4_out_rows, s4_status,
                   s4_cache_unit_addr, s4_cache_owner_name, s4_csv>>
    /\ UNCHANGED varsNotE

\* A mutation of RecordError: the error is not counted.
RecordError_uncounted(cur) ==
    /\ UNCHANGED s4_status
    /\ s4_log' = Append(s4_log, LogEntry(cur, "error"))
    /\ s4_idx' = s4_idx + 1
    /\ s4_pc' = "next"
    /\ s4_nav' = NoNav
    /\ s4_cur' = NoCur

\* the except clause of the loop body (lines 436-438)
RecordError(cur) ==
    /\ s4_status' = [s4_status EXCEPT !.errors = @ + 1]
    /\ s4_log' = Append(s4_log, LogEntry(cur, "error"))
    /\ s4_idx' = s4_idx + 1
    /\ s4_pc' = "next"
    /\ s4_nav' = NoNav
    /\ s4_cur' = NoCur

\* A mutation of swallowed: no exception is passed over.
swallowed_none(target) == FALSE

\* the try/except-pass blocks around the unit and the portfolio look-ups
\* (lines 402-411, 414-423): an exception raised inside is passed over
swallowed(target) == target \in {"unit", "portfolio"}

\* A mutation of AfterGoto: the unit look-up follows the lease navigation
\* with no gate between them.
AfterGoto_no_gate(target, res) ==
    CASE target = "lease" -> "unit"
      [] target = "unit" -> IF res = "raise" THEN "portfolio" ELSE "unit_scrape"
      [] target = "portfolio" -> IF res = "raise" THEN "emit" ELSE "owner_scrape"

\* where main goes after smart_goto has ended for a target
AfterGoto(target, res) ==
    CASE target = "lease" -> "lease"
      [] target = "unit" -> IF res = "raise" THEN "portfolio" ELSE "unit_scrape"
      [] target = "portfolio" -> IF res = "raise" THEN "emit" ELSE "owner_scrape"

\* the history field of a target
NavField(target) ==
    CASE target = "lease" -> "lease_nav"
      [] target = "unit" -> "unit_nav"
      [] target = "portfolio" -> "portfolio_nav"

\* smart_goto (lines 93-126), one attempt, and what main does with its end:
\* the returned value is not read; an exception raised for the lease page
\* reaches the except clause of the loop body, one raised for the unit or
\* portfolio page is passed over.
E_Goto(outcome) ==
    /\ s4_pc = "goto"
    /\ outcome \in (IF FaultsExplored THEN GotoOutcomes ELSE {"ok"})
    /\ LET res == smart_goto_attempt(s4_nav.attempt, outcome)
           cur == [s4_cur EXCEPT ![NavField(s4_nav.target)] = res]
       IN  IF res = "retry"
           THEN /\ s4_nav' = [s4_nav EXCEPT !.attempt = @ + 1]
                /\ UNCHANGED <<s4_pc, s4_cur, s4_idx, s4_status, s4_log>>
           ELSE IF res = "raise" /\ ~swallowed(s4_nav.target)
                THEN RecordError(cur)
                ELSE /\ s4_pc' = AfterGoto(s4_nav.target, res)
                     /\ s4_nav' = [s4_nav EXCEPT !.page =
                                      IF res = "true" THEN "target" ELSE "other"]
                     /\ s4_cur' = cur
                     /\ UNCHANGED <<s4_idx, s4_status, s4_log>>
    /\ UNCHANGED <<s4_rows, s4_site, s4_out_rows, s4_cache_unit_addr,
                   s4_cache_owner_name, s4_csv>>
    /\ UNCHANGED varsNotE

\* main, lines 385-399: the unpaid text of the page shown is parsed and
\* gated; the tenant name is scraped.  A page other than the lease page
\* holds none of the labels.
E_Lease(tenant, raised) ==
    /\ s4_pc = "lease"
    /\ raised => FaultsExplored
    /\ LET unpaid_text == IF s4_nav.page = "target"
                          THEN strip(s4_site[s4_cur.lease_url]) ELSE <<>>
           amount == safe_float(unpaid_text)
           cur    == [s4_cur EXCEPT !.amount = amount, !.read = TRUE]
       IN  IF below_threshold(amount)
           THEN /\ s4_status' = [s4_status EXCEPT !.skipped_total_unpaid_le_1000 = @ + 1]
                /\ s4_log' = Append(s4_log, LogEntry(cur, "skipped"))
                /\ s4_idx' = s4_idx + 1
                /\ s4_pc' = "next"
                /\ s4_nav' = NoNav
                /\ s4_cur' = NoCur
           ELSE IF raised
                THEN RecordError([cur EXCEPT !.tenant_raised = TRUE])
                ELSE /\ s4_cur' = [cur EXCEPT !.tenant_name = strip(tenant)]
                     /\ s4_pc' = "unit"
                     /\ UNCHANGED <<s4_nav, s4_idx, s4_status, s4_log>>
    /\ UNCHANGED <<s4_rows, s4_site, s4_out_rows, s4_cache_unit_addr,
                   s4_cache_owner_name, s4_csv>>
    /\ UNCHANGED varsNotE

\* main, lines 401-407: the unit address is taken from the cache when the
\* cached text is not empty, otherwise the unit page is navigated to
E_Unit ==
    /\ s4_pc = "unit"
    /\ IF s4_cur.unit_url = <<>>
       THEN s4_pc' = "portfolio" /\ UNCHANGED <<s4_cur, s4_nav>>
       ELSE LET cached == Get(s4_cache_unit_addr, s4_cur.unit_url)
            IN  IF cached # <<>>
                THEN /\ s4_cur' = [s4_cur EXCEPT !.unit_address = cached]
                     /\ s4_pc' = "portfolio"
                     /\ UNCHANGED s4_nav
                ELSE /\ s4_pc' = "goto"
                     /\ s4_nav' = [target |-> "unit", attempt |-> 1, page |-> "none"]
                     /\ UNCHANGED s4_cur
    /\ UNCHANGED <<s4_rows, s4_site, s4_idx, s4_out_rows, s4_status,
                   s4_cache_unit_addr, s4_cache_owner_name, s4_csv, s4_log>>
    /\ UNCHANGED varsNotE

\* main, lines 408-409: scrape_unit_address on the page shown, cached
E_UnitScrape(addr) ==
    /\ s4_pc = "unit_scrape"
    /\ LET text == IF s4_nav.page = "target" THEN strip(addr) ELSE <<>>
       IN  /\ s4_cur' = [s4_cur EXCEPT !.unit_address = text]
           /\ s4_cache_unit_addr' = Put(s4_cache_unit_addr, s4_cur.unit_url, text)
    /\ s4_pc' = "portfolio"
    /\ UNCHANGED <<s4_rows, s4_site, s4_idx, s4_out_rows, s4_status,
                   s4_cache_owner_name, s4_nav, s4_csv, s4_log>>
    /\ UNCHANGED varsNotE

\* main, lines 413-419
E_Portfolio ==
    /\ s4_pc = "portfolio"
    /\ IF s4_cur.portfolio_url = <<>>
       THEN s4_pc' = "emit" /\ UNCHANGED <<s4_cur, s4_nav>>
       ELSE LET cached == Get(s4_cache_owner_name, s4_cur.portfolio_url)
            IN  IF cached # <<>>
                THEN /\ s4_cur' = [s4_cur EXCEPT !.owner_name = cached]
                     /\ s4_pc' = "emit"
                     /\ UNCHANGED s4_nav
                ELSE /\ s4_pc' = "goto"
                     /\ s4_nav' = [target |-> "portfolio", attempt |-> 1, page |-> "none"]
                     /\ UNCHANGED s4_cur
    /\ UNCHANGED <<s4_rows, s4_site, s4_idx, s4_out_rows, s4_status,
                   s4_cache_unit_addr, s4_cache_owner_name, s4_csv, s4_log>>
    /\ UNCHANGED varsNotE

\* main, lines 420-423: scrape_second_owner_name on the page shown, cached;
\* an exception it raises is passed over
E_OwnerScrape(owner, raised) ==
    /\ s4_pc = "owner_scrape"
    /\ IF raised
       THEN /\ s4_cur' = [s4_cur EXCEPT !.portfolio_nav = "scrape_raise"]
            /\ UNCHANGED s4_cache_owner_name
       ELSE LET text == IF s4_nav.page = "target" THEN strip(owner) ELSE <<>>
            IN  /\ s4_cur' = [s4_cur EXCEPT !.owner_name = text]
                /\ s4_cache_owner_name' =
                       Put(s4_cache_owner_name, s4_cur.portfolio_url, text)
    /\ s4_pc' = "emit"
    /\ UNCHANGED <<s4_rows, s4_site, s4_idx, s4_out_rows, s4_status,
                   s4_cache_unit_addr, s4_nav, s4_csv, s4_log>>
    /\ UNCHANGED varsNotE

\* main, lines 425-434
E_Emit ==
    /\ s4_pc = "emit"
    /\ s4_out_rows' = Append(s4_out_rows,
          [total_unpaid   |-> Format2f(s4_cur.amount),
           tenant_name    |-> s4_cur.tenant_name,
           unit_address   |-> s4_cur.unit_address,
           owner_name     |-> s4_cur.owner_name,
           lease_href     |-> s4_cur.lease_url,
           unit_href      |-> s4_cur.unit_url,
           portfolio_href |-> s4_cur.portfolio_url,
           lease_name     |-> s4_cur.lease_name])
    /\ s4_log' = Append(s4_log, LogEntry(s4_cur, "emitted"))
    /\ s4_idx' = s4_idx + 1
    /\ s4_pc' = "next"
    /\ s4_nav' = NoNav
    /\ s4_cur' = NoCur
    /\ UNCHANGED <<s4_rows, s4_site, s4_status, s4_cache_unit_addr,
                   s4_cache_owner_name, s4_csv>>
    /\ UNCHANGED varsNotE

\* main, lines 440-450: the context is closed, the csv and the status written
E_Finish ==
    /\ s4_pc = "finish"
    /\ s4_pc' = "done"
    /\ s4_csv' = [written |-> TRUE, rows |-> s4_out_rows]
    /\ s4_status' = [s4_status EXCEPT !.rows_written = Len(s4_out_rows), !.ok = TRUE]
    /\ UNCHANGED <<s4_rows, s4_site, s4_idx, s4_out_rows, s4_cache_unit_addr,
                   s4_cache_owner_name, s4_nav, s4_cur, s4_log>>
    /\ UNCHANGED varsNotE

NextEnrich ==
    \/ \E ok \in BOOLEAN : E_Login(ok)
    \/ E_Next
    \/ \E outcome \in GotoOutcomes : E_Goto(outcome)
    \/ \E tenant \in TenantTexts, raised \in BOOLEAN : E_Lease(tenant, raised)
    \/ E_Unit
    \/ \E addr \in AddressTexts : E_UnitScrape(addr)
    \/ E_Portfolio
    \/ \E owner \in OwnerTexts, raised \in BOOLEAN : E_OwnerScrape(owner, raised)
    \/ E_Emit
    \/ E_Finish

-----------------------------------------------------------------------------
(* Reconciler: src/step5_other_details.py (run by main.py as step 5) and   *)
(* src/step5_generate_notices.py.  The columns modelled are those the      *)
(* county look-up reads and writes.                                        *)

\* step5_other_details.norm
norm(s) == lower(collapse_ws(strip(s)))

\* step5_generate_notices.norm
notices_norm(s) == lower(strip(collapse_ws(s)))

\* number of \s characters of s from position p on
RECURSIVE WsRun(_, _)
WsRun(s, p) == IF p <= Len(s) /\ IsSpace(s[p]) THEN 1 + WsRun(s, p + 1) ELSE 0

W_and == <<" ","a","n","d"," ">>

\* length of a match of (?:&|/|,| and ) at position q, letter case ignored
SepLen(s, q) ==
    IF q > Len(s) THEN 0
    ELSE IF s[q] \in {"&", "/", ","} THEN 1
    ELSE IF q + 4 <= Len(s) /\ lower(SubSeq(s, q, q + 4)) = W_and THEN 5
    ELSE 0

\* a match of \s*(?:&|/|,| and )\s* starting at p: its end (exclusive), or 0
SplitMatchEnd(s, p) ==
    LET ks == {k \in 0..WsRun(s, p) : SepLen(s, p + k) > 0}
    IN  IF ks = {} THEN 0
        ELSE LET k == CHOOSE x \in ks : \A y \in ks : y <= x
                 q == p + k + SepLen(s, p + k)
             IN  q + WsRun(s, q)

\* re.split(r"\s*(?:&|/|,| and )\s*", s, flags=re.I), from position `from`
RECURSIVE re_split(_, _)
re_split(s, from) ==
    LET ps == {p \in from..Len(s) : SplitMatchEnd(s, p) > 0}
    IN  IF ps = {} THEN <<SubSeq(s, from, Len(s))>>
        ELSE LET p == CHOOSE x \in ps : \A y \in ps : x <= y
             IN  <<SubSeq(s, from, p - 1)>> \o re_split(s, SplitMatchEnd(s, p))

\* step5_other_details.split_aliases
split_aliases(lease_name) ==
    LET s == strip(lease_name)
    IN  IF s = <<>> THEN <<>>
        ELSE LET parts == re_split(s, 1)
                 stripped == [i \in 1..Len(parts) |-> strip(parts[i])]
             IN  SelectSeq(stripped, LAMBDA t : t # <<>>)

Min2(x, y) == IF x <= y THEN x ELSE y

\* difflib.SequenceMatcher.find_longest_match(alo, ahi, blo, bhi) without
\* junk: the longest block, of those the one starting earliest in a, of
\* those the one starting earliest in b.  Ranges are 1-based and inclusive.
find_longest_match(a, b, alo, ahi, blo, bhi) ==
    LET Same(i, j, k) == \A d \in 0..(k - 1) : a[i + d] = b[j + d]
        blocks == {m \in (alo..ahi) \X (blo..bhi) \X (1..(ahi - alo + 1)) :
                      /\ m[3] <= Min2(ahi - m[1] + 1, bhi - m[2] + 1)
                      /\ Same(m[1], m[2], m[3])}
    IN  IF blocks = {} THEN <<alo, blo, 0>>
        ELSE CHOOSE m \in blocks :
                \A o \in blocks :
                    \/ o[3] < m[3]
                    \/ o[3] = m[3] /\ m[1] < o[1]
                    \/ o[3] = m[3] /\ m[1] = o[1] /\ m[2] <= o[2]

\* the sum of the sizes of difflib.SequenceMatcher.get_matching_blocks()
RECURSIVE matching_total(_, _, _, _, _, _)
matching_total(a, b, alo, ahi, blo, bhi) ==
    IF alo > ahi \/ blo > bhi THEN 0
    ELSE LET m == find_longest_match(a, b, alo, ahi, blo, bhi)
         IN  IF m[3] = 0 THEN 0
             ELSE m[3] + matching_total(a, b, alo, m[1] - 1, blo, m[2] - 1)
                       + matching_total(a, b, m[1] + m[3], ahi, m[2] + m[3], bhi)

\* difflib.SequenceMatcher(None, a, b).ratio() = 2.0 * M / T, as the pair
\* <<2 * M, T>>; 1.0 when both are empty
ratio(a, b) ==
    IF Len(a) + Len(b) = 0 THEN <<1, 1>>
    ELSE <<2 * matching_total(a, b, 1, Len(a), 1, Len(b)), Len(a) + Len(b)>>

(* Bounds of the reconciliations explored.                                 *)
MaxPop      == 2     \* records of the candidate population
MaxEnriched == 2     \* enriched records

Alameda     == <<"A","l","a","m","e","d","a">>
ContraCosta == <<"C","o","n","t","r","a"," ","C","o","s","t","a">>

L9 == <<"L","9">>

N_AnnBob == <<"A","n","n"," ","&"," ","B","o","b">>
N_Bob    == <<"B","o","b">>

\* rows of rows_sample.csv as the Harvester writes them: a lease link is
\* held by one record at most, the county passed county_ok
PopRecords ==
    { [lease_href |-> L1, lease_name |-> N_AnnBob, building_county |-> Alameda],
      [lease_href |-> L2, lease_name |-> N_Bob, building_county |-> ContraCosta],
      [lease_href |-> <<>>, lease_name |-> <<"B","O","B">>, building_county |-> Alameda] }

Populations ==
    UNION { { q \in [1..n -> PopRecords] : \A i, j \in 1..n : q[i] = q[j] => i = j }
            : n \in 0..MaxPop }

\* the names of the enriched records: tenant_name, and lease_name alike
LookupNames ==
    { N_Bob, <<"A","n","n">>, <<"B","a","b">>, <<"Z","e","d">>,
      <<"a","n","n"," "," ","&"," ","b","o","b">> }

\* the normalized names the runs explored meet
KnownNames ==
    {norm(r.lease_name) : r \in PopRecords}
        \cup {norm(n) : n \in LookupNames}

\* ratio() over the known names, computed once
RatioOfKnown == [p \in KnownNames \X KnownNames |-> ratio(p[1], p[2])]

ratio_of(a, b) ==
    IF <<a, b>> \in DOMAIN RatioOfKnown THEN RatioOfKnown[<<a, b>>] ELSE ratio(a, b)

RatioLeq(r1, r2) == r1[1] * r2[2] <= r2[1] * r1[2]

\* the characters of the texts, in code point order
CodeOrder ==
    <<" ", "&", ",", "/">> \o Digits \o UpperChars \o <<"_">> \o LowerChars
Ord(c) == CHOOSE i \in 1..Len(CodeOrder) : CodeOrder[i] = c

\* Python's  x <= y  on str
RECURSIVE StrLeq(_, _)
StrLeq(x, y) ==
    IF x = <<>> THEN TRUE
    ELSE IF y = <<>> THEN FALSE
    ELSE IF Head(x) = Head(y) THEN StrLeq(Tail(x), Tail(y))
    ELSE Ord(Head(x)) < Ord(Head(y))

\* the cutoffs passed to get_close_matches, as fractions
cutoff_other_details == <<60, 100>>
cutoff_generate_notices == <<75, 100>>

\* difflib.get_close_matches(word, possibilities, n=1, cutoff): the
\* possibility of the greatest (ratio, text) among those whose ratio
\* reaches the cutoff; the matcher's a is the possibility, its b the word
get_close_matches(word, possibilities, cutoff) ==
    LET score == [i \in 1..Len(possibilities) |-> ratio_of(possibilities[i], word)]
        close == {i \in 1..Len(possibilities) : RatioLeq(cutoff, score[i])}
        Below(i, j) ==
            \/ ~RatioLeq(score[j], score[i])
            \/ RatioLeq(score[i], score[j]) /\ StrLeq(possibilities[i], possibilities[j])
    IN  IF close = {} THEN <<>>
        ELSE <<possibilities[CHOOSE i \in close : \A j \in close : Below(j, i)]>>

\* the three structures the maps builders return; in step5_generate_notices
\* county_by_href, county_by_lease_name and lease_names_list take the places
\* of by_href, alias_map and lease_names
NoMaps == [by_href |-> EmptyMap, alias_map |-> EmptyMap, lease_names |-> <<>>]

\* dict[key] = value unless the key is there or is empty
PutNew(map, key, value) ==
    IF key # <<>> /\ key \notin DOMAIN map THEN Put(map, key, value) ELSE map

\* the loop over split_aliases(lease_name) of build_maps_step3
RECURSIVE index_aliases(_, _, _)
index_aliases(alias_map, aliases, county) ==
    IF aliases = <<>> THEN alias_map
    ELSE index_aliases(PutNew(alias_map, norm(Head(aliases)), county),
                       Tail(aliases), county)

\* step5_other_details.build_maps_step3, continued from maps m
RECURSIVE build_maps_step3(_, _)
build_maps_step3(step3_rows, m) ==
    IF step3_rows = <<>> THEN m
    ELSE LET r == Head(step3_rows)
             lease_href == strip(r.lease_href)
             lease_name == strip(r.lease_name)
             county     == strip(r.building_county)
             m1 == IF county = <<>> THEN m
                   ELSE [by_href |-> PutNew(m.by_href, lease_href, county),
                         alias_map |->
                            IF lease_name = <<>> THEN m.alias_map
                            ELSE index_aliases(m.alias_map, split_aliases(lease_name), county),
                         lease_names |->
                            IF lease_name = <<>> THEN m.lease_names
                            ELSE Append(m.lease_names, <<norm(lease_name), county>>)]
         IN  build_maps_step3(Tail(step3_rows), m1)

\* step5_generate_notices.build_maps_from_step3, continued from maps m
RECURSIVE build_maps_from_step3(_, _)
build_maps_from_step3(rows3, m) ==
    IF rows3 = <<>> THEN m
    ELSE LET r == Head(rows3)
             lease_href == strip(r.lease_href)
             lease_name == strip(r.lease_name)
             county     == strip(r.building_county)
             lk         == notices_norm(lease_name)
             fresh      == lease_name # <<>> /\ lk # <<>> /\ lk \notin DOMAIN m.alias_map
             m1 == IF county = <<>> THEN m
                   ELSE [by_href |-> PutNew(m.by_href, lease_href, county),
                         alias_map |-> IF fresh THEN Put(m.alias_map, lk, county)
                                       ELSE m.alias_map,
                         lease_names |-> IF fresh THEN Append(m.lease_names, <<lk, county>>)
                                         ELSE m.lease_names]
         IN  build_maps_from_step3(Tail(rows3), m1)

\* the county of the first pair of lease_names whose name is best_key
county_of_name(lease_names, best_key) ==
    LET hits == {i \in 1..Len(lease_names) : lease_names[i][1] = best_key}
    IN  IF hits = {} THEN <<>>
        ELSE lease_names[CHOOSE i \in hits : \A j \in hits : i <= j][2]

names_of(lease_names) == [i \in 1..Len(lease_names) |-> lease_names[i][1]]

\* A mutation of lookup_county: the lease link is not consulted.
lookup_county_no_href(lease_href, tenant_name, m) ==
    LET tk == norm(tenant_name)
        best == IF tk # <<>>
                THEN get_close_matches(tk, names_of(m.lease_names), cutoff_other_details)
                ELSE <<>>
    IN  IF tk # <<>> /\ tk \in DOMAIN m.alias_map THEN m.alias_map[tk]
        ELSE IF best # <<>> THEN county_of_name(m.lease_names, best[1])
        ELSE <<>>

\* A mutation of lookup_county: without a match the first county known is taken.
lookup_county_guess(lease_href, tenant_name, m) ==
    LET tk == norm(tenant_name)
        best == IF tk # <<>>
                THEN get_close_matches(tk, names_of(m.lease_names), cutoff_other_details)
                ELSE <<>>
    IN  IF lease_href # <<>> /\ lease_href \in DOMAIN m.by_href THEN m.by_href[lease_href]
        ELSE IF tk # <<>> /\ tk \in DOMAIN m.alias_map THEN m.alias_map[tk]
        ELSE IF best # <<>> THEN county_of_name(m.lease_names, best[1])
        ELSE IF m.lease_names # <<>> THEN m.lease_names[1][2]
        ELSE <<>>

\* step5_other_details.lookup_county
lookup_county(lease_href, tenant_name, m) ==
    LET tk == norm(tenant_name)
        best == IF tk # <<>>
                THEN get_close_matches(tk, names_of(m.lease_names), cutoff_other_details)
                ELSE <<>>
    IN  IF lease_href # <<>> /\ lease_href \in DOMAIN m.by_href THEN m.by_href[lease_href]
        ELSE IF tk # <<>> /\ tk \in DOMAIN m.alias_map THEN m.alias_map[tk]
        ELSE IF best # <<>> THEN county_of_name(m.lease_names, best[1])
        ELSE <<>>

\* step5_generate_notices.lookup_county
notices_lookup_county(lease_href, lease_name, m) ==
    LET lk == notices_norm(lease_name)
        best == IF lk # <<>>
                THEN get_close_matches(lk, names_of(m.lease_names), cutoff_generate_notices)
                ELSE <<>>
    IN  IF lease_href # <<>> /\ lease_href \in DOMAIN m.by_href THEN m.by_href[lease_href]
        ELSE IF lk # <<>> /\ lk \in DOMAIN m.alias_map THEN m.alias_map[lk]
        ELSE IF best # <<>> THEN county_of_name(m.lease_names, best[1])
        ELSE <<>>

\* rows of rows_step4.csv: of this population's run (L1), of another run
\* (L9), or without a lease link
EnrichedRecords ==
    { [lease_href |-> L9, tenant_name |-> n, lease_name |-> n] : n \in LookupNames }
    \cup { [lease_href |-> L1, tenant_name |-> N_Bob, lease_name |-> N_Bob],
           [lease_href |-> <<>>, tenant_name |-> <<>>, lease_name |-> <<>>] }

EnrichedInputs == UNION { [1..n -> EnrichedRecords] : n \in 0..MaxEnriched }

ReconcileStatus0 == [ok |-> FALSE, rows_in |-> 0, rows_written |-> 0, error |-> FALSE]

IdleR ==
    /\ s5_copy = "none" /\ s5_pc = "idle"
    /\ s5_step3_rows = <<>> /\ s5_step4_rows = <<>>
    /\ s5_maps = NoMaps /\ s5_idx = 0 /\ s5_out_rows = <<>>
    /\ s5_status = ReconcileStatus0
    /\ s5_csv = [written |-> FALSE, rows |-> <<>>]

\* the two artifacts on disk when main starts
ReconcileStart ==
    /\ s5_copy \in {"other_details", "generate_notices"}
    /\ s5_pc = "start"
    /\ s5_step3_rows \in Populations
    /\ s5_step4_rows \in EnrichedInputs
    /\ s5_maps = NoMaps /\ s5_idx = 0 /\ s5_out_rows = <<>>
    /\ s5_status = ReconcileStatus0
    /\ s5_csv = [written |-> FALSE, rows |-> <<>>]

\* main: both artifacts are read; without enriched rows main exits with
\* status 1, otherwise the maps are built
R_Start ==
    /\ s5_pc = "start"
    /\ IF s5_step4_rows = <<>>
       THEN /\ s5_pc' = "exit1"
            /\ s5_status' = [s5_status EXCEPT !.error = TRUE]
            /\ UNCHANGED <<s5_maps, s5_idx>>
       ELSE /\ s5_pc' = "rows"
            /\ s5_maps' = IF s5_copy = "other_details"
                          THEN build_maps_step3(s5_step3_rows, NoMaps)
                          ELSE build_maps_from_step3(s5_step3_rows, NoMaps)
            /\ s5_idx' = 1
            /\ UNCHANGED s5_status
    /\ UNCHANGED <<s5_copy, s5_step3_rows, s5_step4_rows, s5_out_rows, s5_csv>>
    /\ UNCHANGED varsNotR

\* main: one pass of the loop over the enriched records
R_Row ==
    /\ s5_pc = "rows"
    /\ s5_idx <= Len(s5_step4_rows)
    /\ LET r == s5_step4_rows[s5_idx]
           tenant_name == strip(r.tenant_name)
           lease_href  == strip(r.lease_href)
           lease_name  == strip(r.lease_name)
           county == IF s5_copy = "other_details"
                     THEN lookup_county(lease_href, tenant_name, s5_maps)
                     ELSE notices_lookup_county(lease_href, lease_name, s5_maps)
       IN  s5_out_rows' = Append(s5_out_rows,
                                 [TenantName |-> tenant_name, County |-> county])
    /\ s5_idx' = s5_idx + 1
    /\ UNCHANGED <<s5_copy, s5_pc, s5_step3_rows, s5_step4_rows, s5_maps,
                   s5_status, s5_csv>>
    /\ UNCHANGED varsNotR

\* main: the csv and the status are written
R_Write ==
    /\ s5_pc = "rows"
    /\ s5_idx > Len(s5_step4_rows)
    /\ s5_pc' = "done"
    /\ s5_csv' = [written |-> TRUE, rows |-> s5_out_rows]
    /\ s5_status' = [s5_status EXCEPT !.rows_in = Len(s5_step4_rows),
                                      !.rows_written = Len(s5_out_rows),
                                      !.ok = TRUE]
    /\ UNCHANGED <<s5_copy, s5_step3_rows, s5_step4_rows, s5_maps, s5_idx, s5_out_rows>>
    /\ UNCHANGED varsNotR

NextReconcile ==
    \/ R_Start
    \/ R_Row
    \/ R_Write

-----------------------------------------------------------------------------
(* Document Generator: src/steps/step6_generate.py                         *)

\* the pieces of s between "-" characters
RECURSIVE split_dash(_)
split_dash(s) ==
    LET ds == {i \in 1..Len(s) : s[i] = "-"}
    IN  IF ds = {} THEN <<s>>
        ELSE LET d == CHOOSE i \in ds : \A j \in ds : i <= j
             IN  <<SubSeq(s, 1, d - 1)>> \o split_dash(SubSeq(s, d + 1, Len(s)))

AllDigits(t) == t # <<>> /\ \A i \in 1..Len(t) : IsDigit(t[i])

days_in_month(m, y) ==
    IF m = 2 THEN (IF (y % 4 = 0 /\ y % 100 # 0) \/ y % 400 = 0 THEN 29 ELSE 28)
    ELSE IF m \in {4, 6, 9, 11} THEN 30 ELSE 31

\* the day the generator runs
TodayDate == [m |-> 11, d |-> 4, y |-> 2026]

\* parse_mm_dd_yyyy_or_today: datetime.strptime(s, "%m-%d-%Y").date(), or
\* date.today() when strptime raises
parse_mm_dd_yyyy_or_today(s) ==
    LET f == split_dash(s)
        shaped == /\ Len(f) = 3
                  /\ AllDigits(f[1]) /\ Len(f[1]) <= 2
                  /\ AllDigits(f[2]) /\ Len(f[2]) <= 2
                  /\ AllDigits(f[3]) /\ Len(f[3]) = 4
        dt == [m |-> DigitsVal(f[1]), d |-> DigitsVal(f[2]), y |-> DigitsVal(f[3])]
    IN  IF shaped /\ dt.m \in 1..12 /\ dt.y >= 1 /\ dt.d \in 1..days_in_month(dt.m, dt.y)
        THEN dt ELSE TodayDate

\* "%02d"
Pad2(n) == <<Digits[(n \div 10) + 1], Digits[(n % 10) + 1]>>

\* short_mm_dd_yy: dt.strftime("%m-%d-%y")
short_mm_dd_yy(dt) == Pad2(dt.m) \o <<"-">> \o Pad2(dt.d) \o <<"-">> \o Pad2(dt.y % 100)

UnsafeChars == {"\\", "/", ":", "*", "?", "\"", "<", ">", "|"}
SlugLimit == 80
W_Unknown == <<"U","n","k","n","o","w","n">>
W_docx == <<".","d","o","c","x">>

\* slugify_name
slugify_name(name) ==
    LET t1 == SelectSeq(strip(name), LAMBDA c : c \notin UnsafeChars)
        t2 == collapse_ws(t1)
        t3 == SubSeq(t2, 1, Min2(Len(t2), SlugLimit))
    IN  IF t3 = <<>> THEN W_Unknown ELSE t3

\* main, line 211: the file name of a record whose base name was used n times
file_name_for(short_date, tenant_slug, n) ==
    IF n = 0 THEN short_date \o <<"_">> \o tenant_slug \o W_docx
    ELSE short_date \o <<"_">> \o tenant_slug \o <<"_">> \o ToDec(n + 1) \o W_docx

(* Bound of the generations explored.                                      *)
MaxDocs == 3     \* rows of the notices csv

T_JohnSmith == <<"J","o","h","n"," ","S","m","i","t","h">>
D_0601 == <<"0","6","-","0","1","-","2","0","2","4">>

\* rows of the notices csv, with the columns that name the output file
NoticeRows ==
    { [TenantName |-> T_JohnSmith, Date |-> D_0601],
      [TenantName |-> T_JohnSmith \o <<"_","2">>, Date |-> D_0601],
      [TenantName |-> <<"J","o","h","n"," "," ","S","m","i","t","h","/">>, Date |-> D_0601],
      [TenantName |-> <<>>, Date |-> D_0601],
      [TenantName |-> T_JohnSmith, Date |-> <<>>] }

NoticeInputs == UNION { [1..n -> NoticeRows] : n \in 0..MaxDocs }

GenerateStatus0 == [ok |-> FALSE, files_written |-> 0, error |-> FALSE]

IdleG ==
    /\ s6_pc = "idle" /\ s6_rows = <<>> /\ s6_idx = 0
    /\ s6_used_names = EmptyMap /\ s6_files = EmptyMap
    /\ s6_made = 0 /\ s6_outputs = <<>> /\ s6_status = GenerateStatus0
    /\ s6_saved = <<>>

\* the notices csv on disk when main starts; the output folder holds no
\* document of this run yet
GenerateStart ==
    /\ s6_pc = "start" /\ s6_rows \in NoticeInputs /\ s6_idx = 0
    /\ s6_used_names = EmptyMap /\ s6_files = EmptyMap
    /\ s6_made = 0 /\ s6_outputs = <<>> /\ s6_status = GenerateStatus0
    /\ s6_saved = <<>>

\* main, lines 154-175: the csv and the template are looked for, the rows
\* are read; without a template or without rows main exits with status 1
G_Start(template_exists) ==
    /\ s6_pc = "start"
    /\ IF ~template_exists \/ s6_rows = <<>>
       THEN /\ s6_pc' = "exit1"
            /\ s6_status' = [s6_status EXCEPT !.error = TRUE]
            /\ UNCHANGED s6_idx
       ELSE /\ s6_pc' = "rows"
            /\ s6_idx' = 1
            /\ UNCHANGED s6_status
    /\ UNCHANGED <<s6_rows, s6_used_names, s6_files, s6_made, s6_outputs, s6_saved>>
    /\ UNCHANGED varsNotG

\* main, lines 184-223: one pass of the loop over the rows; rendering or
\* doc.save may raise, and then the record is not counted
G_Row(save_ok) ==
    /\ s6_pc = "rows"
    /\ s6_idx <= Len(s6_rows)
    /\ LET r == s6_rows[s6_idx]
           tenant_name == strip(r.TenantName)
           short_date  == short_mm_dd_yy(parse_mm_dd_yyyy_or_today(strip(r.Date)))
           tenant_slug == slugify_name(tenant_name)
           base_name   == short_date \o <<"_">> \o tenant_slug \o W_docx
           n           == IF base_name \in DOMAIN s6_used_names
                          THEN s6_used_names[base_name] ELSE 0
           file_name   == file_name_for(short_date, tenant_slug, n)
           out_path    == <<short_date, file_name>>
       IN  /\ s6_used_names' = Put(s6_used_names, base_name, n + 1)
           /\ IF save_ok
              THEN /\ s6_files' = Put(s6_files, out_path,
                                      [TenantName |-> tenant_name, row |-> s6_idx])
                   /\ s6_outputs' = Append(s6_outputs, out_path)
                   /\ s6_made' = s6_made + 1
                   /\ s6_saved' = Append(s6_saved, [row |-> s6_idx, path |-> out_path])
              ELSE UNCHANGED <<s6_files, s6_outputs, s6_made, s6_saved>>
    /\ s6_idx' = s6_idx + 1
    /\ UNCHANGED <<s6_pc, s6_rows, s6_status>>
    /\ UNCHANGED varsNotG

\* main, lines 225-234: the status is printed, the exit code is 0 when a
\* document was made
G_Finish ==
    /\ s6_pc = "rows"
    /\ s6_idx > Len(s6_rows)
    /\ s6_pc' = IF s6_made > 0 THEN "exit0" ELSE "exit1"
    /\ s6_status' = [s6_status EXCEPT !.ok = s6_made > 0, !.files_written = s6_made]
    /\ UNCHANGED <<s6_rows, s6_idx, s6_used_names, s6_files, s6_made, s6_outputs, s6_saved>>
    /\ UNCHANGED varsNotG

NextGenerate ==
    \/ \E template_exists \in BOOLEAN : G_Start(template_exists)
    \/ \E save_ok \in BOOLEAN : G_Row(save_ok)
    \/ G_Finish

-----------------------------------------------------------------------------
(* Document Generator, the script the orchestrator runs:                   *)
(* src/step6_generate.py (module-level code, docxtpl)                      *)

\* the class \w of re on the characters used here
IsWordChar(c) ==
    \/ c \in {UpperChars[i] : i \in 1..Len(UpperChars)}
    \/ c \in {LowerChars[i] : i \in 1..Len(LowerChars)}
    \/ IsDigit(c)
    \/ c = "_"

\* line 257: re.sub(r"[^\w\-. ]", "_", name)
safe_name(name) ==
    [i \in 1..Len(name) |->
        IF IsWordChar(name[i]) \/ name[i] \in {"-", ".", " "} THEN name[i] ELSE "_"]

W_row_ == <<"r","o","w","_">>

\* DATE_DIR: today.strftime("%m-%d-%y")
DATE_DIR == short_mm_dd_yy(TodayDate)

\* ensure_unique_path: the path itself when nothing is there, else the first
\* of stem_2, stem_3, ... that does not exist
\* A mutation of unique_from: the first candidate is taken as it is.
unique_from_unchecked(folder, stem, i) == stem \o <<"_">> \o ToDec(i) \o W_docx

RECURSIVE unique_from(_, _, _)
unique_from(folder, stem, i) ==
    LET candidate == stem \o <<"_">> \o ToDec(i) \o W_docx
    IN  IF candidate \notin DOMAIN folder THEN candidate
        ELSE unique_from(folder, stem, i + 1)

ensure_unique_path(folder, stem) ==
    IF (stem \o W_docx) \notin DOMAIN folder THEN stem \o W_docx
    ELSE unique_from(folder, stem, 2)

(* Bound of the runs of the script explored.                               *)
MaxScriptRows == 3     \* rows of the notices csv

\* rows of the notices csv, with the column that names the output file
ScriptRows ==
    { [TenantName |-> T_JohnSmith],
      [TenantName |-> <<"A","n","n","/","B","o","b">>],
      [TenantName |-> <<" ">>] }

ScriptInputs == UNION { [1..n -> ScriptRows] : n \in 0..MaxScriptRows }

\* OUT_DIR is made with exist_ok: it may hold the documents of an earlier
\* run of the same day
EarlierFolders ==
    { EmptyMap,
      Put(EmptyMap, DATE_DIR \o <<"_">> \o T_JohnSmith \o W_docx,
          [TenantName |-> T_JohnSmith, row |-> 0]) }

IdleS ==
    /\ gs_pc = "idle" /\ gs_rows = <<>> /\ gs_idx = 0
    /\ gs_folder = EmptyMap /\ gs_printed = <<>> /\ gs_made = <<>>

ScriptStart ==
    /\ gs_pc = "start" /\ gs_rows \in ScriptInputs /\ gs_idx = 0
    /\ gs_folder \in EarlierFolders /\ gs_printed = <<>> /\ gs_made = <<>>

\* lines 174-215: the csv and the template are looked for; a missing one
\* raises FileNotFoundError, which nothing catches; else the rows are read
\* and the first dict is printed
GS_Start(csv_exists, template_exists) ==
    /\ gs_pc = "start"
    /\ IF ~csv_exists \/ ~template_exists
       THEN /\ gs_pc' = "raised"
            /\ UNCHANGED <<gs_idx, gs_printed>>
       ELSE /\ gs_pc' = "rows"
            /\ gs_idx' = 1
            /\ gs_printed' = Append(gs_printed, [rows_in |-> Len(gs_rows)])
    /\ UNCHANGED <<gs_rows, gs_folder, gs_made>>
    /\ UNCHANGED varsNotS

\* lines 217-260: one pass of the loop; doc.render or doc.save may raise,
\* and nothing catches it: the interpreter ends with a traceback
GS_Row(saved) ==
    /\ gs_pc = "rows"
    /\ gs_idx <= Len(gs_rows)
    /\ LET r == gs_rows[gs_idx]
           tenant_name == strip(r.TenantName)
           stem == DATE_DIR \o <<"_">> \o
                   safe_name(IF tenant_name # <<>> THEN tenant_name
                             ELSE W_row_ \o ToDec(gs_idx))
           out_path == ensure_unique_path(gs_folder, stem)
       IN  IF saved
           THEN /\ gs_folder' = Put(gs_folder, out_path,
                                    [TenantName |-> tenant_name, row |-> gs_idx])
                /\ gs_made' = Append(gs_made, gs_idx)
                /\ gs_idx' = gs_idx + 1
                /\ UNCHANGED gs_pc
           ELSE /\ gs_pc' = "raised"
                /\ UNCHANGED <<gs_folder, gs_made, gs_idx>>
    /\ UNCHANGED <<gs_rows, gs_printed>>
    /\ UNCHANGED varsNotS

\* line 262: the last dict is printed and the interpreter ends with status 0
GS_Finish ==
    /\ gs_pc = "rows"
    /\ gs_idx > Len(gs_rows)
    /\ gs_pc' = "exit0"
    /\ gs_printed' = Append(gs_printed, [ok |-> TRUE])
    /\ UNCHANGED <<gs_rows, gs_idx, gs_folder, gs_made>>
    /\ UNCHANGED varsNotS

NextScript ==
    \/ \E csv_exists \in BOOLEAN, template_exists \in BOOLEAN :
           GS_Start(csv_exists, template_exists)
    \/ \E saved \in BOOLEAN : GS_Row(saved)
    \/ GS_Finish

-----------------------------------------------------------------------------
(* Orchestrator: src/main.py.  Each step is a child process; main sees its *)
(* return code only.  A child is described by how its main ends, the       *)
(* return code of that end, and what it writes to data/debug.              *)

(* Bound of the artifacts explored.                                        *)
MaxRowsOnDisk == 1     \* data rows of an artifact in data/debug

Absent == <<>>
Holding(n) == <<n>>
Artifacts == {Absent} \cup {Holding(n) : n \in 0..MaxRowsOnDisk}

Ended(end, rc, writes) == [end |-> end, rc |-> rc, writes |-> writes]

\* step3_rows_sample.main: the csv is written inside the try; every
\* exception ("Required columns missing" included) is caught, the status is
\* printed with ok False, and main returns: the return code is 0 either way
HarvesterRuns ==
    {Ended("done", 0, Holding(n)) : n \in 0..MaxRowsOnDisk}
        \cup {Ended("failed", 0, Absent)}

\* step4_opening_url.main: without rows_sample.csv the error is printed and
\* main returns (code 0); login raising leaves main through the finally
\* (code 1); else rows_step4.csv is written with the records kept
EnricherRuns(rows_sample) ==
    IF rows_sample = Absent THEN {Ended("no_input", 0, Absent)}
    ELSE {Ended("done", 0, Holding(m)) : m \in 0..rows_sample[1]}
             \cup {Ended("crashed", 1, Absent)}

ReconcilerRuns_lenient(rows_step4) ==
    IF rows_step4 = Absent THEN {Ended("exit1", 1, Absent)}
    ELSE {Ended("done", 0, rows_step4)}

\* step5_other_details.main: read_csv gives [] for a missing file and for a
\* file without data rows, and main then calls sys.exit(1); else one output
\* row per enriched record
ReconcilerRuns(rows_step4) ==
    IF rows_step4 = Absent \/ rows_step4 = Holding(0)
    THEN {Ended("exit1", 1, Absent)}
    ELSE {Ended("done", 0, rows_step4)}

\* step6_generate.py: FileNotFoundError without a notices csv or without a
\* template; an exception of render or save in the loop, which needs a row;
\* else status 0.  It writes documents, no artifact of data/debug.
GeneratorRuns(notices) ==
    IF notices = Absent THEN {Ended("no_input", 1, Absent)}
    ELSE {Ended("exit0", 0, Absent), Ended("no_template", 1, Absent)}
             \cup (IF notices[1] > 0 THEN {Ended("row_raised", 1, Absent)} ELSE {})

\* the artifact a step reads and the one it writes
ReadsOf == [k \in 3..6 |->
    IF k = 3 THEN "none" ELSE IF k = 4 THEN "rows_sample"
    ELSE IF k = 5 THEN "rows_step4" ELSE "notices"]
WritesOf == [k \in 3..6 |->
    IF k = 3 THEN "rows_sample" ELSE IF k = 4 THEN "rows_step4"
    ELSE IF k = 5 THEN "notices" ELSE "none"]

NoDisk == [rows_sample |-> Absent, rows_step4 |-> Absent, notices |-> Absent]

StepRuns(k, disk) ==
    IF k = 3 THEN HarvesterRuns
    ELSE IF k = 4 THEN EnricherRuns(disk.rows_sample)
    ELSE IF k = 5 THEN ReconcilerRuns(disk.rows_step4)
    ELSE GeneratorRuns(disk.notices)

\* parse_steps_arg: a sorted list of distinct steps; the steps of the
\* data pipeline are explored
StepLists ==
    { q \in UNION { [1..n -> 3..6] : n \in 1..4 } :
        \A i \in 1..(Len(q) - 1) : q[i] < q[i + 1] }

IdleO ==
    /\ o_pc = "idle" /\ o_steps_to_run = <<>> /\ o_continue_on_error = FALSE
    /\ o_pos = 0 /\ o_any_fail = FALSE /\ o_disk = NoDisk /\ o_log = <<>>

\* main, lines 86-103: the arguments are parsed; data/debug holds whatever
\* earlier runs left there
OrchestratorStart ==
    /\ o_pc = "loop" /\ o_steps_to_run \in StepLists
    /\ o_continue_on_error \in BOOLEAN
    /\ o_pos = 1 /\ o_any_fail = FALSE
    /\ o_disk \in [rows_sample : Artifacts, rows_step4 : Artifacts, notices : Artifacts]
    /\ o_log = <<>>

\* main, lines 105-112: the script of the step is not there
O_MissingScript ==
    /\ o_pc = "loop"
    /\ o_pos <= Len(o_steps_to_run)
    /\ o_any_fail' = TRUE
    /\ o_pos' = IF o_continue_on_error THEN o_pos + 1 ELSE Len(o_steps_to_run) + 1
    /\ UNCHANGED <<o_pc, o_steps_to_run, o_continue_on_error, o_disk, o_log>>
    /\ UNCHANGED varsNotO

\* main, lines 114-121: the step runs to its end; a return code other than
\* 0 sets any_fail and, without --continue-on-error, leaves the loop
O_RunStep(run) ==
    /\ o_pc = "loop"
    /\ o_pos <= Len(o_steps_to_run)
    /\ LET k == o_steps_to_run[o_pos]
       IN  /\ run \in StepRuns(k, o_disk)
           /\ o_log' = Append(o_log,
                  [step |-> k, end |-> run.end, rc |-> run.rc,
                   read |-> IF k = 3 THEN Absent ELSE o_disk[ReadsOf[k]],
                   wrote |-> run.writes])
           /\ o_disk' = IF run.writes = Absent THEN o_disk
                        ELSE [o_disk EXCEPT ![WritesOf[k]] = run.writes]
    /\ o_any_fail' = (o_any_fail \/ run.rc # 0)
    /\ o_pos' = IF run.rc # 0 /\ ~o_continue_on_error
                THEN Len(o_steps_to_run) + 1 ELSE o_pos + 1
    /\ UNCHANGED <<o_pc, o_steps_to_run, o_continue_on_error>>
    /\ UNCHANGED varsNotO

\* main, lines 123-130: the summary, and sys.exit(1 if any_fail else 0)
O_Summary ==
    /\ o_pc = "loop"
    /\ o_pos > Len(o_steps_to_run)
    /\ o_pc' = IF o_any_fail THEN "exit1" ELSE "exit0"
    /\ UNCHANGED <<o_steps_to_run, o_continue_on_error, o_pos, o_any_fail,
                   o_disk, o_log>>
    /\ UNCHANGED varsNotO

AllRuns == HarvesterRuns \cup UNION {EnricherRuns(a) \cup ReconcilerRuns(a)
                                         \cup GeneratorRuns(a) : a \in Artifacts}

NextOrchestrator ==
    \/ O_MissingScript
    \/ \E run \in AllRuns : O_RunStep(run)
    \/ O_Summary

-----------------------------------------------------------------------------
(* Writing an output artifact.  step3_rows_sample.main (lines 324-333) and *)
(* step4_opening_url.main (lines 443-446) open OUT_CSV with mode "w" and   *)
(* write into it; rxtract._safe_write_csv writes a .tmp.csv, removes       *)
(* OUT_CSV and renames.  The operator may end the process between any two  *)
(* file operations; lines still in the file object's buffer are lost then. *)

(* Bound of the artifacts written.                                         *)
MaxCsvRows == 2     \* data rows of the artifact being written

NoFile == [exists |-> FALSE, lines |-> <<>>]
FileOf(lines) == [exists |-> TRUE, lines |-> lines]

CsvRows == UNION { [1..n -> {"a", "b"}] : n \in 0..MaxCsvRows }

\* the header line and the data rows, as writeheader/writerows produce them
CompleteLines(rows) == <<"header">> \o rows

\* OUT_CSV before the writer starts: not there, or the complete artifact of
\* an earlier run
EarlierFiles == {NoFile, FileOf(CompleteLines(<<>>)), FileOf(CompleteLines(<<"z">>))}

Writers == {"step3", "step4", "rxtract"}

IdleW ==
    /\ w_pc = "idle" /\ w_who = "none" /\ w_rows = <<>>
    /\ w_out = NoFile /\ w_tmp = NoFile /\ w_alt = NoFile
    /\ w_buf = <<>> /\ w_n = 0 /\ w_prev = NoFile

WriterStart ==
    /\ w_pc = "start" /\ w_who \in Writers /\ w_rows \in CsvRows
    /\ w_out \in EarlierFiles /\ w_tmp = NoFile /\ w_alt = NoFile
    /\ w_buf = <<>> /\ w_n = 0 /\ w_prev = w_out

\* open(..., "w"): the file is created, or truncated when it exists.
\* step3 and step4 open OUT_CSV itself, rxtract opens the .tmp.csv
W_Open ==
    /\ w_pc = "start"
    /\ w_pc' = "open"
    /\ IF w_who = "rxtract"
       THEN w_tmp' = FileOf(<<>>) /\ UNCHANGED w_out
       ELSE w_out' = FileOf(<<>>) /\ UNCHANGED w_tmp
    /\ UNCHANGED <<w_who, w_rows, w_alt, w_buf, w_n, w_prev>>
    /\ UNCHANGED varsNotW

\* writeheader / writerow: the next line goes to the file object
W_WriteLine ==
    /\ w_pc = "open"
    /\ w_n < Len(CompleteLines(w_rows))
    /\ w_buf' = Append(w_buf, CompleteLines(w_rows)[w_n + 1])
    /\ w_n' = w_n + 1
    /\ UNCHANGED <<w_pc, w_who, w_rows, w_out, w_tmp, w_alt, w_prev>>
    /\ UNCHANGED varsNotW

\* the file object's buffer reaches the disk: when it fills, at any time
W_Flush ==
    /\ w_pc = "open"
    /\ w_buf # <<>>
    /\ IF w_who = "rxtract"
       THEN w_tmp' = FileOf(w_tmp.lines \o w_buf) /\ UNCHANGED w_out
       ELSE w_out' = FileOf(w_out.lines \o w_buf) /\ UNCHANGED w_tmp
    /\ w_buf' = <<>>
    /\ UNCHANGED <<w_pc, w_who, w_rows, w_alt, w_n, w_prev>>
    /\ UNCHANGED varsNotW

\* the end of the with block: the buffer is flushed and the file closed;
\* step3 and step4 are done then
W_Close ==
    /\ w_pc = "open"
    /\ w_n = Len(CompleteLines(w_rows))
    /\ IF w_who = "rxtract"
       THEN /\ w_tmp' = FileOf(w_tmp.lines \o w_buf) /\ UNCHANGED w_out
            /\ w_pc' = "closed"
       ELSE /\ w_out' = FileOf(w_out.lines \o w_buf) /\ UNCHANGED w_tmp
            /\ w_pc' = "done"
    /\ w_buf' = <<>>
    /\ UNCHANGED <<w_who, w_rows, w_alt, w_n, w_prev>>
    /\ UNCHANGED varsNotW

\* _safe_write_csv, lines 108-113: os.remove(OUT_CSV) when it exists; a
\* PermissionError (the file is open elsewhere) leads to the except clause
X_Remove(locked) ==
    /\ w_pc = "closed"
    /\ IF w_out.exists
       THEN IF locked
            THEN w_pc' = "locked" /\ UNCHANGED w_out
            ELSE w_pc' = "removed" /\ w_out' = NoFile
       ELSE w_pc' = "removed" /\ UNCHANGED w_out
    /\ UNCHANGED <<w_who, w_rows, w_tmp, w_alt, w_buf, w_n, w_prev>>
    /\ UNCHANGED varsNotW

\* _safe_write_csv, line 114: os.replace(tmp, OUT_CSV)
X_Replace ==
    /\ w_pc = "removed"
    /\ w_pc' = "done"
    /\ w_out' = w_tmp
    /\ w_tmp' = NoFile
    /\ UNCHANGED <<w_who, w_rows, w_alt, w_buf, w_n, w_prev>>
    /\ UNCHANGED varsNotW

\* _safe_write_csv, lines 117-122: os.replace(tmp, alt)
X_ReplaceAlt ==
    /\ w_pc = "locked"
    /\ w_pc' = "done"
    /\ w_alt' = w_tmp
    /\ w_tmp' = NoFile
    /\ UNCHANGED <<w_who, w_rows, w_out, w_buf, w_n, w_prev>>
    /\ UNCHANGED varsNotW

\* the operator ends the process; what the file object still holds is lost
W_Terminated ==
    /\ w_pc \in {"start", "open", "closed", "removed", "locked"}
    /\ w_pc' = "terminated"
    /\ w_buf' = <<>>
    /\ UNCHANGED <<w_who, w_rows, w_out, w_tmp, w_alt, w_n, w_prev>>
    /\ UNCHANGED varsNotW

NextWriter ==
    \/ W_Open
    \/ W_WriteLine
    \/ W_Flush
    \/ W_Close
    \/ \E locked \in BOOLEAN : X_Remove(locked)
    \/ X_Replace
    \/ X_ReplaceAlt
    \/ W_Terminated

-----------------------------------------------------------------------------
(* Owner resolution: step4_opening_url.scrape_second_owner_name.  The page *)
(* is described by the elements its locators select: a table has an        *)
(* optional thead with the header row, and its other rows either inside a  *)
(* tbody (as an HTML parser always builds it) or as children of the table  *)
(* (a table built by script); a header row may also be the first of the    *)
(* other rows.  A row is a sequence of cells.                              *)

(* Bound of the pages explored.                                            *)
MaxOwners == 2     \* owners listed by the table

W_Name == <<"N","a","m","e">>
W_Share == <<"S","h","a","r","e">>
OwnerNames == {<<"A","c","m","e"," ","L","L","C">>, <<"B","o","b">>, <<"C","y"," ","D">>}
RowStyles == {"more_info", "link", "text"}

Cell(tag, more_info, text, link) ==
    [tag |-> tag, more_info |-> more_info, text |-> text, link |-> link]

HeaderRow == <<Cell("th", FALSE, W_Name, <<>>), Cell("th", FALSE, W_Share, <<>>)>>

\* a data row: the name cell (with a link when the style has one) and the
\* cell with the owner's share
DataRow(style, name) ==
    << Cell("td", style = "more_info", name, IF style = "text" THEN <<>> ELSE <<name>>),
       Cell("td", FALSE, <<"5","0","%">>, <<>>) >>

OwnerLists ==
    UNION { { q \in [1..n -> OwnerNames] : \A i, j \in 1..n : q[i] = q[j] => i = j }
            : n \in 0..MaxOwners }

\* id: the table is #ownersTable; thead: the header row is in a thead;
\* body_header: the header row is the first of the other rows;
\* tbody: the other rows are inside a tbody; heading: a heading holding
\* "Owner" precedes the table
OwnerTables ==
    [id : BOOLEAN, head : {"none", "thead", "body"}, tbody : BOOLEAN,
     heading : BOOLEAN, style : RowStyles, owners : OwnerLists]

NoOwnerTable == <<>>
OwnerPages == {NoOwnerTable} \cup {<<t>> : t \in OwnerTables}

\* the data rows of a table, in document order
DataRows(t) == [i \in 1..Len(t.owners) |-> DataRow(t.style, t.owners[i])]

\* the rows that are not in the thead
BodyRows(t) == (IF t.head = "body" THEN <<HeaderRow>> ELSE <<>>) \o DataRows(t)

\* tbl.locator("tbody tr")
tbody_tr(t) == IF t.tbody THEN BodyRows(t) ELSE <<>>

\* tbl.locator("tr[position()>1]"): the tr children of the table after the
\* first one
tr_after_first(t) == IF t.tbody \/ BodyRows(t) = <<>> THEN <<>> ELSE Tail(BodyRows(t))

\* tbl.locator("thead th")
thead_th(t) == IF t.head = "thead" THEN HeaderRow ELSE <<>>

\* tbl.locator("tr").first.locator("th, td")
first_tr_cells(t) ==
    IF t.head = "thead" THEN HeaderRow
    ELSE IF BodyRows(t) = <<>> THEN <<>> ELSE Head(BodyRows(t))

\* row.locator("td")
tds(row) == SelectSeq(row, LAMBDA c : c.tag = "td")

\* the texts of the links selected, in document order
links_of(cells) ==
    IF \A i \in 1..Len(cells) : cells[i].link = <<>> THEN <<>>
    ELSE LET i == CHOOSE k \in 1..Len(cells) :
                      cells[k].link # <<>> /\ \A j \in 1..(k - 1) : cells[j].link = <<>>
         IN  <<cells[i].link[1]>>

\* texts.sort(key=len, reverse=True); texts[0]: the first of the longest
longest_text(texts) ==
    texts[CHOOSE k \in 1..Len(texts) :
              /\ \A j \in 1..Len(texts) : Len(texts[j]) <= Len(texts[k])
              /\ \A j \in 1..(k - 1) : Len(texts[j]) < Len(texts[k])]

\* lines 252-258 and 307-314: the non-empty texts of the td cells
td_texts(row) ==
    LET c == SelectSeq(tds(row), LAMBDA x : strip(x.text) # <<>>)
    IN  [i \in 1..Len(c) |-> strip(c[i].text)]

\* lines 244-258: the name read from a row of #ownersTable
name_compact(row) ==
    LET more == links_of(SelectSeq(tds(row), LAMBDA c : c.more_info))
        link == IF more # <<>> THEN more ELSE links_of(row)
    IN  IF link # <<>> THEN strip(link[1])
        ELSE IF td_texts(row) # <<>> THEN longest_text(td_texts(row))
        ELSE <<>>

\* lines 286-294: the position of the first header whose lowered text
\* starts with "name"; <<>> when there is none
name_idx(t) ==
    LET ths == IF thead_th(t) # <<>> THEN thead_th(t) ELSE first_tr_cells(t)
        hit == {i \in 1..Len(ths) :
                   LET h == lower(strip(ths[i].text))
                   IN  Len(h) >= 4 /\ SubSeq(h, 1, 4) = lower(W_Name)}
    IN  IF hit = {} THEN <<>>
        ELSE <<CHOOSE i \in hit : \A j \in hit : i <= j>>

\* lines 296-314: the name read from a row of a headered table
name_headered(t, row) ==
    IF name_idx(t) # <<>> /\ name_idx(t)[1] <= Len(tds(row))
    THEN LET name_cell == tds(row)[name_idx(t)[1]]
         IN  IF name_cell.link # <<>> /\ strip(name_cell.link[1]) # <<>>
             THEN strip(name_cell.link[1]) ELSE strip(name_cell.text)
    ELSE IF links_of(row) # <<>> THEN strip(links_of(row)[1])
    ELSE IF td_texts(row) # <<>> THEN longest_text(td_texts(row))
    ELSE <<>>

\* rows.nth(1) if rc >= 2 else rows.nth(0)
pick_row(rows) == IF Len(rows) >= 2 THEN rows[2] ELSE rows[1]

\* lines 262-316: the headered tables; the selectors find the table by the
\* heading before it or by its "Name" header
headered(t) ==
    IF ~(t.heading \/ t.head # "none") THEN <<>>
    ELSE LET rows == IF tbody_tr(t) # <<>> THEN tbody_tr(t) ELSE tr_after_first(t)
         IN  IF rows = <<>> THEN <<>>
             ELSE name_headered(t, pick_row(rows))

\* scrape_second_owner_name; raised: a locator call of the first block
\* raises and the except clause passes
scrape_second_owner_name(page, raised) ==
    IF page = NoOwnerTable THEN <<>>
    ELSE LET t == page[1]
         IN  IF t.id /\ ~raised
             THEN IF tbody_tr(t) # <<>> THEN name_compact(pick_row(tbody_tr(t)))
                  ELSE <<>>
             ELSE headered(t)

IdleOw == ow_pc = "idle" /\ ow_page = NoOwnerTable /\ ow_out = <<>>

OwnerStart == ow_pc = "start" /\ ow_page \in OwnerPages /\ ow_out = <<>>

OW_Scrape(raised) ==
    /\ ow_pc = "start"
    /\ ow_pc' = IF raised THEN "done_after_raise" ELSE "done"
    /\ ow_out' = scrape_second_owner_name(ow_page, raised)
    /\ UNCHANGED ow_page
    /\ UNCHANGED varsNotOw

NextOwner == \E raised \in BOOLEAN : OW_Scrape(raised)

-----------------------------------------------------------------------------
(* Token replacement: src/steps/step6_generate.py, build_token_regex,      *)
(* replace_in_paragraph_runs, replace_placeholders_with_underlines and the *)
(* try block of main.  A document is the sequence of its paragraphs in the *)
(* order replace_placeholders_with_underlines visits them (body            *)
(* paragraphs, tables, headers, footers); a paragraph is a sequence of     *)
(* runs.                                                                   *)

(* Bounds of the documents explored.                                       *)
MaxParas == 2       \* paragraphs of the template
MaxNotices == 2     \* rows of the notices csv

KeyChars ==
    [ TenantName |-> <<"T","e","n","a","n","t","N","a","m","e">>,
      TenantAddress |-> <<"T","e","n","a","n","t","A","d","d","r","e","s","s">>,
      AmountDue |-> <<"A","m","o","u","n","t","D","u","e">>,
      DateOfUnpaidRent |-> <<"D","a","t","e","O","f","U","n","p","a","i","d","R","e","n","t">>,
      PropertyOwner |-> <<"P","r","o","p","e","r","t","y","O","w","n","e","r">>,
      Date |-> <<"D","a","t","e">>,
      Day |-> <<"D","a","y">>,
      Month |-> <<"M","o","n","t","h">>,
      Year |-> <<"Y","e","a","r">>,
      County |-> <<"C","o","u","n","t","y">>,
      City |-> <<"C","i","t","y">> ]

\* the keys of mapping (main, lines 188-199)
MappingKeys == {"TenantName", "TenantAddress", "AmountDue", "DateOfUnpaidRent",
                "PropertyOwner", "Date", "Day", "Month", "Year", "County"}

\* A mutation of UNDERLINE_ALWAYS: the prior-unpaid date is left out.
UNDERLINE_ALWAYS_short == {"TenantAddress", "AmountDue"}

UNDERLINE_ALWAYS == {"TenantAddress", "AmountDue", "DateOfUnpaidRent"}
UNDERLINE_FIRST_ONLY == {"TenantName", "Day", "Month"}

\* the text the regular expression of build_token_regex matches for a key
Token(k) == <<"{", "{">> \o KeyChars[k] \o <<"}", "}">>

\* rows of the notices csv
NoticeA ==
    [ TenantName |-> <<" ","A","n","n"," ">>,
      TenantAddress |-> <<"1"," ","A"," ","S","t","\n","O","a","k","l","a","n","d",","," ","C","A">>,
      AmountDue |-> <<"1",",","5","0","0",".","0","0">>,
      DateOfUnpaidRent |-> <<"0","9","-","0","4","-","2","0","2","6">>,
      PropertyOwner |-> <<"A","c","m","e">>,
      Date |-> <<"1","1","-","0","4","-","2","0","2","6">>,
      Day |-> <<"4">>,
      Month |-> <<"N","o","v","e","m","b","e","r">>,
      Year |-> <<"2","6">>,
      County |-> <<"A","l","a","m","e","d","a">>,
      City |-> <<"O","a","k","l","a","n","d">> ]

NoticeB ==
    [ TenantName |-> <<>>,
      TenantAddress |-> <<"2"," ","B"," ","A","v","e">>,
      AmountDue |-> <<"1",",","0","0","0",".","0","1">>,
      DateOfUnpaidRent |-> <<>>,
      PropertyOwner |-> <<"B","o","b">>,
      Date |-> <<>>,
      Day |-> <<"5">>,
      Month |-> <<>>,
      Year |-> <<"2","6">>,
      County |-> <<>>,
      City |-> <<>> ]

ReplaceRows == UNION { [1..n -> {NoticeA, NoticeB}] : n \in 1..MaxNotices }

\* paragraphs a template is made of, in the order they are visited
TemplateParagraphs ==
    << [where |-> "body", runs |-> <<<<"D","e","a","r"," ","{","{","T","e","n","a","n","t","N","a","m","e","}","}",",">>>>],
       [where |-> "body", runs |-> <<<<"{","{","T","e","n","a","n","t">>, <<"N","a","m","e","}","}"," ","o","w","e","s"," ","{","{","A","m","o","u","n","t","D","u","e","}","}">>>>],
       [where |-> "body", runs |-> <<<<"{","{","D","a","y","}","}"," ","o","f"," ","{","{","M","o","n","t","h","}","}",";"," ","{","{","D","a","y","}","}"," ","{","{","M","o","n","t","h","}","}">>>>],
       [where |-> "body", runs |-> <<<<"{","{","T","e","n","a","n","t","A","d","d","r","e","s","s","}","}"," ","{","{","C","i","t","y","}","}"," ","s","i","n","c","e"," ","{","{","D","a","t","e","O","f","U","n","p","a","i","d","R","e","n","t","}","}">>>>],
       [where |-> "table", runs |-> <<<<"{","{","T","e","n","a","n","t","N","a","m","e","}","}"," ","{","{","P","r","o","p","e","r","t","y","O","w","n","e","r","}","}"," ","{","{","C","o","u","n","t","y","}","}"," ","{","{","D","a","t","e","}","}"," ","{","{","Y","e","a","r","}","}">>>>],
       [where |-> "header", runs |-> <<<<"{","{","T","e","n","a","n","t","N","a","m","e","}","}"," ","{","{","D","a","y","}","}"," ","{","{","D","a","y","}","}">>>>],
       [where |-> "footer", runs |-> <<<<"{","{","M","o","n","t","h","}","}"," ","{","{"," ","D","a","y"," ","}","}"," ","p","a","g","e">>>>] >>

Run(text, underline, key) == [text |-> text, underline |-> underline, key |-> key]

\* the paragraphs of TemplateParagraphs at the positions of S, in order
RECURSIVE ParagraphsAt(_, _)
ParagraphsAt(S, i) ==
    IF i > Len(TemplateParagraphs) THEN <<>>
    ELSE (IF i \in S
          THEN <<[where |-> TemplateParagraphs[i].where,
                  runs |-> [j \in 1..Len(TemplateParagraphs[i].runs) |->
                               Run(TemplateParagraphs[i].runs[j], FALSE, "")]]>>
          ELSE <<>>) \o ParagraphsAt(S, i + 1)

Templates ==
    { ParagraphsAt(S, 1) : S \in { X \in SUBSET (1..Len(TemplateParagraphs)) :
                                     Cardinality(X) \in 1..MaxParas } }

\* to_single_line
to_single_line(t) == strip(collapse_ws(t))

\* main, lines 186-199: the mapping of a row
mapping_of(r) ==
    [k \in MappingKeys |->
        IF k = "TenantAddress" THEN to_single_line(strip(r[k])) ELSE strip(r[k])]

\* "".join(run.text for run in paragraph.runs)
RECURSIVE join_runs(_)
join_runs(runs) == IF runs = <<>> THEN <<>> ELSE Head(runs).text \o join_runs(Tail(runs))

\* the keys whose token starts at position i of text
KeysAt(text, i) ==
    {k \in MappingKeys :
        /\ i + Len(Token(k)) - 1 <= Len(text)
        /\ SubSeq(text, i, i + Len(Token(k)) - 1) = Token(k)}

\* replace_in_paragraph_runs, lines 88-98: token_re.finditer(text) cut into
\* TEXT and TOKEN parts
RECURSIVE parts_of(_, _)
parts_of(text, mapping) ==
    LET hits == {i \in 1..Len(text) : KeysAt(text, i) # {}}
    IN  IF text = <<>> THEN <<>>
        ELSE IF hits = {} THEN <<[kind |-> "TEXT", payload |-> text, key |-> ""]>>
        ELSE LET i == CHOOSE x \in hits : \A y \in hits : x <= y
                 k == CHOOSE x \in KeysAt(text, i) : TRUE
                 before == IF i > 1
                           THEN <<[kind |-> "TEXT", payload |-> SubSeq(text, 1, i - 1),
                                   key |-> ""]>>
                           ELSE <<>>
             IN  before \o <<[kind |-> "TOKEN", payload |-> mapping[k], key |-> k]>>
                     \o parts_of(SubSeq(text, i + Len(Token(k)), Len(text)), mapping)

\* replace_in_paragraph_runs, lines 108-121: one run per part, underlined by
\* the rules; gives the runs added and seen_counts
RECURSIVE add_runs(_, _, _)
add_runs(parts, seen, runs) ==
    IF parts = <<>> THEN [runs |-> runs, seen |-> seen]
    ELSE LET q == Head(parts)
             first_only == q.kind = "TOKEN" /\ q.key \in UNDERLINE_FIRST_ONLY
                               /\ q.key \notin UNDERLINE_ALWAYS
             underline == /\ q.kind = "TOKEN"
                          /\ \/ q.key \in UNDERLINE_ALWAYS
                             \/ first_only /\ seen[q.key] = 0
         IN  add_runs(Tail(parts),
                      IF first_only THEN [seen EXCEPT ![q.key] = @ + 1] ELSE seen,
                      Append(runs, Run(q.payload, underline, q.key)))

\* replace_in_paragraph_runs
replace_in_paragraph_runs(paragraph, mapping, seen) ==
    LET text == join_runs(paragraph.runs)
        parts == parts_of(text, mapping)
    IN  IF paragraph.runs = <<>> \/ text = <<>>
           \/ \A i \in 1..Len(parts) : parts[i].kind = "TEXT"
        THEN [paragraph |-> paragraph, seen |-> seen]
        ELSE LET emptied == [j \in 1..Len(paragraph.runs) |->
                                [paragraph.runs[j] EXCEPT !.text = <<>>]]
                 added == add_runs(parts, seen, <<>>)
             IN  [paragraph |-> [paragraph EXCEPT !.runs = emptied \o added.runs],
                  seen |-> added.seen]

\* defaultdict(int)
NoneSeen == [k \in MappingKeys |-> 0]

IdleRp ==
    /\ rp_pc = "idle" /\ rp_template = <<>> /\ rp_rows = <<>> /\ rp_row = 0
    /\ rp_doc = <<>> /\ rp_pos = 0 /\ rp_seen = NoneSeen /\ rp_docs = <<>>

\* main, lines 172-182: the rows are read, the template is read once
ReplaceStart ==
    /\ rp_pc = "open" /\ rp_template \in Templates /\ rp_rows \in ReplaceRows
    /\ rp_row = 1 /\ rp_doc = <<>> /\ rp_pos = 0 /\ rp_seen = NoneSeen
    /\ rp_docs = <<>>

\* main, line 216, and replace_placeholders_with_underlines, lines 134-135:
\* the document is opened from the template bytes, seen_counts is new
RP_Open ==
    /\ rp_pc = "open"
    /\ rp_pc' = "replace"
    /\ rp_doc' = rp_template
    /\ rp_pos' = 1
    /\ rp_seen' = NoneSeen
    /\ UNCHANGED <<rp_template, rp_rows, rp_row, rp_docs>>
    /\ UNCHANGED varsNotRp

\* replace_placeholders_with_underlines, lines 136-150: the next paragraph
RP_Paragraph ==
    /\ rp_pc = "replace"
    /\ rp_pos <= Len(rp_doc)
    /\ LET res == replace_in_paragraph_runs(rp_doc[rp_pos],
                                            mapping_of(rp_rows[rp_row]), rp_seen)
       IN  /\ rp_doc' = [rp_doc EXCEPT ![rp_pos] = res.paragraph]
           /\ rp_seen' = res.seen
    /\ rp_pos' = rp_pos + 1
    /\ UNCHANGED <<rp_pc, rp_template, rp_rows, rp_row, rp_docs>>
    /\ UNCHANGED varsNotRp

\* main, lines 219-222: the document is saved; the loop goes on
RP_Save ==
    /\ rp_pc = "replace"
    /\ rp_pos > Len(rp_doc)
    /\ rp_docs' = Append(rp_docs, rp_doc)
    /\ rp_row' = rp_row + 1
    /\ rp_pc' = IF rp_row < Len(rp_rows) THEN "open" ELSE "done"
    /\ rp_doc' = <<>>
    /\ rp_pos' = 0
    /\ UNCHANGED <<rp_template, rp_rows, rp_seen>>
    /\ UNCHANGED varsNotRp

NextReplace ==
    \/ RP_Open
    \/ RP_Paragraph
    \/ RP_Save

-----------------------------------------------------------------------------
(* City derivation: city_from_tenant_address of src/step5_other_details.py *)
(* (lines 68-110) and of src/step6_generate.py (lines 66-93).              *)

(* Bound of the addresses explored.                                        *)
MaxTokens == 3     \* words before the comma

\* stop, lines 88-94
StopOtherDetails ==
    { <<"s","t">>, <<"s","t","r","e","e","t">>, <<"a","v","e">>,
      <<"a","v","e","n","u","e">>, <<"r","d">>, <<"r","o","a","d">>,
      <<"b","l","v","d">>, <<"b","o","u","l","e","v","a","r","d">>, <<"h","w","y">>,
      <<"h","i","g","h","w","a","y">>, <<"p","k","w","y">>, <<"p","a","r","k","w","a","y">>,
      <<"t","r","l">>, <<"t","r","a","i","l">>, <<"t","e","r">>,
      <<"t","e","r","r","a","c","e">>, <<"l","n">>, <<"l","a","n","e">>,
      <<"d","r">>, <<"d","r","i","v","e">>, <<"c","t">>,
      <<"c","o","u","r","t">>, <<"c","i","r">>, <<"c","i","r","c","l","e">>,
      <<"p","l">>, <<"p","l","a","c","e">>, <<"w","a","y">>,
      <<"a","l","y">>, <<"a","l","l","e","y">>, <<"a","p","t">>,
      <<"u","n","i","t">>, <<"s","t","e">>, <<"s","u","i","t","e">>,
      <<"b","l","d","g">>, <<"f","l">>, <<"f","l","o","o","r">>,
      <<"r","m">>, <<"r","o","o","m">>, <<"#">> }

\* stop, lines 78-84 of src/step6_generate.py
StopGenerate ==
    { <<"s","t">>, <<"s","t","r","e","e","t">>, <<"a","v","e">>,
      <<"a","v","e","n","u","e">>, <<"r","d">>, <<"r","o","a","d">>,
      <<"b","l","v","d">>, <<"b","o","u","l","e","v","a","r","d">>, <<"h","w","y">>,
      <<"h","i","g","h","w","a","y">>, <<"p","k","w","y">>, <<"p","a","r","k","w","a","y">>,
      <<"t","r","l">>, <<"t","r","a","i","l">>, <<"t","e","r">>,
      <<"t","e","r","r","a","c","e">>, <<"l","n">>, <<"l","a","n","e">>,
      <<"d","r">>, <<"d","r","i","v","e">>, <<"c","t">>,
      <<"c","o","u","r","t">>, <<"c","i","r">>, <<"c","i","r","c","l","e">>,
      <<"p","l">>, <<"p","l","a","c","e">>, <<"w","a","y">>,
      <<"a","l","y">>, <<"a","l","l","e","y">>, <<"a","p","t">>,
      <<"u","n","i","t">>, <<"s","t","e">>, <<"s","u","i","t","e">>,
      <<"b","l","d","g">>, <<"f","l">>, <<"f","l","o","o","r">>,
      <<"r","m">>, <<"r","o","o","m">>, <<"#">> }

\* s.split(",", 1)[0]
before_comma(s) ==
    LET cs == {i \in 1..Len(s) : s[i] = ","}
    IN  IF cs = {} THEN s
        ELSE SubSeq(s, 1, (CHOOSE i \in cs : \A j \in cs : i <= j) - 1)

\* str.split(): the runs of characters that are not white space
RECURSIVE split_ws(_)
split_ws(s) ==
    LET t == lstrip(s)
        sp == {i \in 1..Len(t) : IsSpace(t[i])}
    IN  IF t = <<>> THEN <<>>
        ELSE IF sp = {} THEN <<t>>
        ELSE LET e == CHOOSE i \in sp : \A j \in sp : i <= j
             IN  <<SubSeq(t, 1, e - 1)>> \o split_ws(SubSeq(t, e, Len(t)))

\* str.strip(chars)
strip_chars(s, chars) ==
    IF \A i \in 1..Len(s) : s[i] \in chars THEN <<>>
    ELSE LET a == CHOOSE i \in 1..Len(s) :
                     s[i] \notin chars /\ \A j \in 1..(i - 1) : s[j] \in chars
             b == CHOOSE i \in 1..Len(s) :
                     s[i] \notin chars /\ \A j \in (i + 1)..Len(s) : s[j] \in chars
         IN  SubSeq(s, a, b)

\* " ".join(words)
RECURSIVE join_space(_)
join_space(words) ==
    IF words = <<>> THEN <<>>
    ELSE IF Len(words) = 1 THEN words[1]
    ELSE words[1] \o <<" ">> \o join_space(Tail(words))

\* A mutation of is_non_city: a token with a digit is not held back.
is_non_city_keyword_only(tok, stop) ==
    lower(strip_chars(tok, {" ", ".", ",", "#"})) \in stop

\* t = tok.strip(" .,#").lower();
\* any(ch.isdigit() for ch in t) or t in stop
is_non_city(tok, stop) ==
    LET t == lower(strip_chars(tok, {" ", ".", ",", "#"}))
    IN  (\E i \in 1..Len(t) : IsDigit(t[i])) \/ t \in stop

\* the loop over reversed(tokens), from token i leftwards; city_tokens is
\* kept in the order of the address
RECURSIVE city_scan(_, _, _, _)
city_scan(tokens, i, city_tokens, stop) ==
    IF i = 0 THEN city_tokens
    ELSE IF is_non_city(tokens[i], stop)
         THEN (IF city_tokens # <<>> THEN city_tokens
               ELSE city_scan(tokens, i - 1, city_tokens, stop))
         ELSE city_scan(tokens, i - 1,
                        <<strip_chars(tokens[i], {","})>> \o city_tokens, stop)

city_with(addr, stop) ==
    LET s == strip(addr)
        left == strip(before_comma(s))
        tokens == split_ws(left)
        city_tokens == city_scan(tokens, Len(tokens), <<>>, stop)
    IN  IF s = <<>> \/ left = <<>> THEN <<>>
        ELSE IF city_tokens # <<>> THEN join_space(city_tokens)
        ELSE IF tokens # <<>> THEN tokens[Len(tokens)] ELSE <<>>

\* src/step5_other_details.py
city_from_tenant_address(addr) == city_with(addr, StopOtherDetails)

\* src/step6_generate.py
generate_city_from_tenant_address(addr) == city_with(addr, StopGenerate)

\* words an address is made of
AddressWords ==
    { <<"1","6","5","6">>, <<"A","v","e">>, <<"A","p","t">>, <<"O","a","k","l","a","n","d">>, <<"S","a","n">>, <<"S","t",".">>, <<"#">> }

Example_Oakland == <<"1","6","5","6"," ","8","4","t","h"," ","A","v","e"," ","A","p","t"," ","2"," ","O","a","k","l","a","n","d",","," ","C","A"," ","9","4","6","2","1">>
Example_SanJose == <<"1","2","3"," ","M","a","i","n"," ","S","t"," ","S","a","n"," ","J","o","s","e",","," ","C","A"," ","9","5","1","1","2">>

\* the words joined by one space, with or without the part after the comma
Addresses ==
    LET lefts == { join_space(q) : q \in UNION { [1..n -> AddressWords] : n \in 0..MaxTokens } }
    IN  lefts \cup { l \o <<",", " ", "C", "A">> : l \in lefts }
              \cup {Example_Oakland, Example_SanJose}

IdleCi == ci_pc = "idle" /\ ci_copy = "none" /\ ci_addr = <<>> /\ ci_out = <<>>

CityStart ==
    /\ ci_pc = "start" /\ ci_copy \in {"other_details", "generate"}
    /\ ci_addr \in Addresses /\ ci_out = <<>>

CI_Apply ==
    /\ ci_pc = "start"
    /\ ci_pc' = "done"
    /\ ci_out' = IF ci_copy = "other_details"
                 THEN city_from_tenant_address(ci_addr)
                 ELSE generate_city_from_tenant_address(ci_addr)
    /\ UNCHANGED <<ci_copy, ci_addr>>
    /\ UNCHANGED varsNotCi

NextCity == CI_Apply

-----------------------------------------------------------------------------
(* Amount formatting: money_fmt of src/step5_other_details.py (lines       *)
(* 44-49) and of src/step6_generate.py (lines 20-25), and the bindings     *)
(* main of src/steps/step6_generate.py builds from a row (lines 185-199).  *)
(* An amount is held in thousandths; the texts explored have at most three *)
(* decimals and none ends in a 5 at the third, so that rounding to two     *)
(* decimals does not depend on the binary value of the float.              *)

(* Bound of the reruns explored.                                           *)
MaxRuns == 2     \* runs of the Document Generator over the same dataset

IntegerTexts == { <<"0">>, <<"7">>, <<"9","9","9">>, <<"1","0","0","0">>, <<"1",",","0","0","0">>, <<"1","5","0","0">>, <<"1","2","3","4","5","6","7">>, <<"1",",","2","3","4",",","5","6","7">>, <<"1","2",",","3","4">> }
FractionTexts == { <<>>, <<".">>, <<".","5">>, <<".","5","0">>, <<".","0","0","4">>, <<".","9","9","6">> }
OtherTexts == { <<>>, <<"a","b","c">>, <<"$","5">>, <<" ","1","2"," ">>, <<"1"," ","2">>, <<"-">>, <<".">> }

\* what the total_unpaid column may hold
AmountTexts ==
    { sign \o int \o frac : sign \in {<<>>, <<"-">>}, int \in IntegerTexts,
                            frac \in FractionTexts } \cup OtherTexts

\* float(t) accepts t, for t made of the characters explored
float_accepts(t) ==
    /\ t # <<>>
    /\ \A i \in 1..Len(t) : IsDigit(t[i]) \/ t[i] \in {".", "-"}
    /\ ValidFloat(t)

\* the "," option of the format: the digits in groups of three
RECURSIVE group3(_)
group3(ds) ==
    IF Len(ds) <= 3 THEN ds
    ELSE group3(SubSeq(ds, 1, Len(ds) - 3)) \o <<",">> \o SubSeq(ds, Len(ds) - 2, Len(ds))

\* f"{f:.2f}": the sign of the float, no grouping
fixed2(neg, mills) ==
    (IF neg THEN <<"-">> ELSE <<>>) \o Format2f(mills)

\* f"{f:,.2f}": the sign of the float (of a negative zero too), the integer
\* digits grouped, the nearest hundredth
grouped2(neg, mills) ==
    LET plain == Format2f(mills)
        int == SubSeq(plain, 1, Len(plain) - 3)
    IN  (IF neg THEN <<"-">> ELSE <<>>) \o group3(int)
            \o SubSeq(plain, Len(plain) - 2, Len(plain))

\* A mutation of money_fmt: the "," option is left out of the format.
money_fmt_ungrouped(val) ==
    LET t == strip(SelectSeq(val, LAMBDA c : c # ","))
    IN  IF float_accepts(t)
        THEN fixed2(Head(t) = "-", IF Head(t) = "-" THEN 0 - FloatMills(t) ELSE FloatMills(t))
        ELSE val

\* money_fmt of src/step5_other_details.py
money_fmt(val) ==
    LET t == strip(SelectSeq(val, LAMBDA c : c # ","))
    IN  IF float_accepts(t)
        THEN grouped2(Head(t) = "-", IF Head(t) = "-" THEN 0 - FloatMills(t) ELSE FloatMills(t))
        ELSE val

\* money_fmt of src/step6_generate.py; str(val or "") for a str is val
generate_money_fmt(val) ==
    LET t == strip(SelectSeq(val, LAMBDA c : c # ","))
    IN  IF float_accepts(t)
        THEN grouped2(Head(t) = "-", IF Head(t) = "-" THEN 0 - FloatMills(t) ELSE FloatMills(t))
        ELSE val

\* the days the Document Generator may run on
RunDays == {[m |-> 11, d |-> 4, y |-> 2026], [m |-> 12, d |-> 1, y |-> 2026]}

IdleAm ==
    /\ am_pc = "idle" /\ am_val = <<>> /\ am_row = <<>> /\ am_runs = <<>>

\* rows_step4.csv holds one record with the amount am_val; the rest of the
\* notice row is that of NoticeA or NoticeB
AmountStart ==
    /\ am_pc = "reconcile" /\ am_val \in AmountTexts
    /\ am_row \in {<<NoticeA>>, <<NoticeB>>} /\ am_runs = <<>>

\* step5_other_details.main, line 205: amount_due = money_fmt(total_unpaid)
AM_Reconcile ==
    /\ am_pc = "reconcile"
    /\ am_pc' = "generate"
    /\ am_row' = <<[am_row[1] EXCEPT !.AmountDue = money_fmt(am_val)]>>
    /\ UNCHANGED <<am_val, am_runs>>
    /\ UNCHANGED varsNotAm

\* one run of the Document Generator over the notices csv, on the day
\* today: the mapping of steps/step6_generate.main, and the amount_due of
\* src/step6_generate.py (line 223)
AM_Generate(today) ==
    /\ am_pc = "generate"
    /\ Len(am_runs) < MaxRuns
    /\ am_runs' = Append(am_runs,
                         [today |-> today,
                          steps |-> mapping_of(am_row[1]),
                          script |-> generate_money_fmt(strip(am_row[1].AmountDue))])
    /\ UNCHANGED <<am_pc, am_val, am_row>>
    /\ UNCHANGED varsNotAm

NextAmount ==
    \/ AM_Reconcile
    \/ \E today \in RunDays : AM_Generate(today)

-----------------------------------------------------------------------------
(* smart_goto of src/step4_opening_url.py (lines 80-126), step by step.    *)
(* Every call it makes on the page carries a timeout, so each step ends:   *)
(* with its result, with PWTimeout, or with another exception.             *)

CallEnds == {"ok", "timeout", "error"}

IdleSg ==
    /\ sg_pc = "idle" /\ sg_attempt = 0 /\ sg_navs = 0 /\ sg_logins = 0
    /\ sg_trace = <<>> /\ sg_result = "none"

\* the for loop is entered: attempt = 1
GotoStart ==
    /\ sg_pc = "primary" /\ sg_attempt = 1 /\ sg_navs = 0 /\ sg_logins = 0
    /\ sg_trace = <<>> /\ sg_result = "none"

\* A mutation of last_attempt: one attempt more is made.
last_attempt_late(attempt) == attempt = max_tries + 1

\* attempt is the last value of range(1, max_tries + 1)
last_attempt(attempt) == attempt = max_tries

\* smart_goto ends: "true" | "false" returned, "timeout" | "error" raised
SG_End(result, how) ==
    /\ sg_pc' = "ended"
    /\ sg_result' = result
    /\ sg_trace' = Append(sg_trace, [navs |-> sg_navs', end |-> how])
    /\ UNCHANGED sg_attempt

\* `continue`: the next attempt, or the end of the loop and `return False`
SG_Continue(how) ==
    IF last_attempt(sg_attempt)
    THEN SG_End("false", how)
    ELSE /\ sg_pc' = "primary"
         /\ sg_attempt' = sg_attempt + 1
         /\ sg_trace' = Append(sg_trace, [navs |-> sg_navs', end |-> how])
         /\ UNCHANGED sg_result

\* the inner `except PWTimeout` (lines 117-125): raise at the last attempt,
\* otherwise login(page) with its exceptions passed over, and `continue`
SG_FallbackTimeout ==
    IF last_attempt(sg_attempt)
    THEN SG_End("timeout", "timeout") /\ UNCHANGED sg_logins
    ELSE SG_Continue("timeout") /\ sg_logins' = sg_logins + 1

\* line 95: page.goto(url, wait_until=NAV_WAIT_PRIMARY)
SG_Primary(ends) ==
    /\ sg_pc = "primary"
    /\ sg_navs' = 1
    /\ CASE ends = "ok" -> /\ sg_pc' = "settle"
                           /\ UNCHANGED <<sg_attempt, sg_trace, sg_result>>
         [] ends = "timeout" -> /\ sg_pc' = "fallback"
                                /\ UNCHANGED <<sg_attempt, sg_trace, sg_result>>
         [] ends = "error" -> SG_End("error", "error")
    /\ UNCHANGED sg_logins
    /\ UNCHANGED varsNotSg

\* lines 97-100: wait_for_load_state; its PWTimeout is passed over
SG_Settle(ends) ==
    /\ sg_pc = "settle"
    /\ UNCHANGED <<sg_navs, sg_logins>>
    /\ IF ends = "error"
       THEN SG_End("error", "error")
       ELSE sg_pc' = "check" /\ UNCHANGED <<sg_attempt, sg_trace, sg_result>>
    /\ UNCHANGED varsNotSg

\* re_login_if_logged_out (lines 65-78) and what follows it, after the
\* first goto (lines 103-108) and after the fallback goto (lines 113-116);
\* login(page) is called when a login surface is found, and a PWTimeout it
\* raises is caught by the except clause around the call
SG_Check(logged_out, login_ends) ==
    /\ sg_pc \in {"check", "fallback_check"}
    /\ ~logged_out => login_ends = "ok"
    /\ sg_navs' = sg_navs
    /\ IF ~logged_out
       THEN SG_End("true", "shown") /\ UNCHANGED sg_logins
       ELSE CASE login_ends = "ok" ->
                    SG_Continue("relogin") /\ sg_logins' = sg_logins + 1
              [] login_ends = "error" ->
                    SG_End("error", "error") /\ sg_logins' = sg_logins + 1
              [] login_ends = "timeout" ->
                    IF sg_pc = "check"
                    THEN /\ sg_pc' = "fallback"
                         /\ sg_logins' = sg_logins + 1
                         /\ UNCHANGED <<sg_attempt, sg_trace, sg_result>>
                    ELSE IF last_attempt(sg_attempt)
                         THEN SG_End("timeout", "timeout") /\ sg_logins' = sg_logins + 1
                         ELSE SG_Continue("timeout") /\ sg_logins' = sg_logins + 2
    /\ UNCHANGED varsNotSg

\* line 112: page.goto(url, wait_until=NAV_WAIT_FALLBACK)
SG_Fallback(ends) ==
    /\ sg_pc = "fallback"
    /\ sg_navs' = sg_navs + 1
    /\ CASE ends = "ok" -> /\ sg_pc' = "fallback_check"
                           /\ UNCHANGED <<sg_attempt, sg_trace, sg_result, sg_logins>>
         [] ends = "timeout" -> SG_FallbackTimeout
         [] ends = "error" -> SG_End("error", "error") /\ UNCHANGED sg_logins
    /\ UNCHANGED varsNotSg

NextGoto ==
    \/ \E ends \in CallEnds : SG_Primary(ends)
    \/ \E ends \in CallEnds : SG_Settle(ends)
    \/ \E logged_out \in BOOLEAN, login_ends \in CallEnds : SG_Check(logged_out, login_ends)
    \/ \E ends \in CallEnds : SG_Fallback(ends)

-----------------------------------------------------------------------------
(* Paging of the Grid Harvester: load_all_rows (lines 103-139),            *)
(* _pager_disabled and click_next_page (lines 147-209), and the page loop  *)
(* of main (lines 309-341) of src/step3_rows_sample.py.  What the grid     *)
(* shows at each measurement is chosen freely; which rows pass the filter  *)
(* is the matter of the Harvester's own specification, here only their     *)
(* number is kept.                                                         *)

max_scrolls == 200
idle_rounds == 3
max_polls   == 40     \* range(40) of click_next_page

(* Bounds of the paging runs explored.                                     *)
MaxVisible   == 1     \* rows a measurement of the grid may count
MaxGridPages == 2     \* pages the grid has

RowCounts == 0..MaxVisible

W_x_item_disabled == <<"x","-","i","t","e","m","-","d","i","s","a","b","l","e","d">>
W_x_btn_disabled  == <<"x","-","b","t","n","-","d","i","s","a","b","l","e","d">>
W_true == <<"t","r","u","e">>

\* the class attribute of the control found
ClassTexts ==
    { <<"x","-","b","t","n"," ","x","-","t","b","a","r","-","p","a","g","e","-","n","e","x","t">>,
      <<"x","-","b","t","n"," ","x","-","i","t","e","m","-","d","i","s","a","b","l","e","d">>,
      <<"X","-","B","t","n","-","D","i","s","a","b","l","e","d"," ","x","-","b","t","n">> }

\* its aria-disabled attribute; <<>> when it has none
AriaTexts == { <<>>, <<"t","r","u","e">>, <<"T","r","u","e">>, <<"f","a","l","s","e">> }

\* the next-page control click_next_page finds: none, one whose attributes
\* cannot be read, or one with attributes
NoButton == [kind |-> "absent", class |-> <<>>, aria |-> <<>>, disabled |-> FALSE]

Buttons ==
    { NoButton, [NoButton EXCEPT !.kind = "unreadable"] }
      \cup [kind : {"found"}, class : ClassTexts, aria : AriaTexts, disabled : BOOLEAN]

\* A mutation of pager_disabled: aria-disabled is not looked at.
pager_disabled_no_aria(btn) ==
    IF btn.kind = "unreadable" THEN FALSE
    ELSE LET cls == lower(btn.class)
         IN  \/ contains(cls, W_x_item_disabled)
             \/ contains(cls, W_x_btn_disabled)
             \/ btn.disabled

\* _pager_disabled (lines 147-154); an exception of get_attribute gives False
pager_disabled(btn) ==
    IF btn.kind = "unreadable" THEN FALSE
    ELSE LET cls  == lower(btn.class)
             aria == lower(btn.aria)
         IN  \/ contains(cls, W_x_item_disabled)
             \/ contains(cls, W_x_btn_disabled)
             \/ aria = W_true
             \/ btn.disabled

\* what a look at the rows gives: the count and the text of the first row
NoSight == [cnt |-> 0, sig |-> <<>>]

Sights ==
    { NoSight } \cup [cnt : RowCounts \ {0}, sig : { <<"a">>, <<"b">> }]

\* A mutation of page_changed: only the count is compared.
page_changed_count_only(before, after) == after.cnt # before.cnt

\* line 205: cnt_after != cnt_before or sig_after != sig_before
page_changed(before, after) ==
    after.cnt # before.cnt \/ after.sig # before.sig

\* A mutation of budget_spent: one scroll more is allowed.
budget_spent_late(scrolls) == scrolls >= max_scrolls + 1

\* the for loop over range(max_scrolls) has run out
budget_spent(scrolls) == scrolls >= max_scrolls

PagingStatus0 == [ok |-> FALSE, error |-> FALSE, pages_processed |-> 0, rows_out |-> 0]

IdlePg ==
    /\ pg_pc = "idle" /\ pg_pages = 0 /\ pg_scrolls = 0 /\ pg_last = 0 /\ pg_same = 0
    /\ pg_load_end = "none" /\ pg_total = 0 /\ pg_out = 0
    /\ pg_btn = NoButton /\ pg_before = NoSight /\ pg_polls = 0 /\ pg_click = "none"
    /\ pg_seen = NoSight
    /\ pg_status = PagingStatus0 /\ pg_csv = [written |-> FALSE, rows |-> 0]

\* main, lines 305-311: the page loop is entered, pages = 1
PagingStart ==
    /\ pg_pc = "locate" /\ pg_pages = 1 /\ pg_scrolls = 0 /\ pg_last = 0 /\ pg_same = 0
    /\ pg_load_end = "none" /\ pg_total = 0 /\ pg_out = 0
    /\ pg_btn = NoButton /\ pg_before = NoSight /\ pg_polls = 0 /\ pg_click = "none"
    /\ pg_seen = NoSight
    /\ pg_status = PagingStatus0 /\ pg_csv = [written |-> FALSE, rows |-> 0]

\* process_current_page, lines 215-217: without a rows locator the page
\* gives no rows and load_all_rows is not called
PG_Locate(found) ==
    /\ pg_pc = "locate"
    /\ pg_pc' = IF found THEN "scroller" ELSE "next"
    /\ UNCHANGED <<pg_pages, pg_scrolls, pg_last, pg_same, pg_load_end, pg_total,
                   pg_out, pg_btn, pg_before, pg_polls, pg_click, pg_status, pg_csv, pg_seen>>
    /\ UNCHANGED varsNotPg

\* load_all_rows, lines 105-118: the scroll container is looked for
PG_Scroller(found) ==
    /\ pg_pc = "scroller"
    /\ IF found
       THEN pg_pc' = "scroll" /\ UNCHANGED pg_load_end
       ELSE pg_pc' = "read" /\ pg_load_end' = "no_scroller"
    /\ UNCHANGED <<pg_pages, pg_scrolls, pg_last, pg_same, pg_total,
                   pg_out, pg_btn, pg_before, pg_polls, pg_click, pg_status, pg_csv, pg_seen>>
    /\ UNCHANGED varsNotPg

\* load_all_rows, lines 119-138: one iteration of the loop.  The count is
\* measured (raised: rows_loc.count() raises); unless the count has been
\* unchanged idle_rounds times the container is scrolled, an exception of
\* the scroll being passed over.
PG_Scroll(raised, count) ==
    /\ pg_pc = "scroll"
    /\ raised => count = 0
    /\ LET same == IF count = pg_last THEN pg_same + 1 ELSE 0
       IN  IF raised
           THEN /\ pg_pc' = "read" /\ pg_load_end' = "count_raised"
                /\ UNCHANGED <<pg_scrolls, pg_last, pg_same>>
           ELSE IF same >= idle_rounds
                THEN /\ pg_pc' = "read" /\ pg_load_end' = "idle"
                     /\ pg_same' = same
                     /\ UNCHANGED <<pg_scrolls, pg_last>>
                ELSE /\ pg_same' = same
                     /\ pg_last' = count
                     /\ pg_scrolls' = pg_scrolls + 1
                     /\ IF budget_spent(pg_scrolls + 1)
                        THEN pg_pc' = "read" /\ pg_load_end' = "budget"
                        ELSE UNCHANGED <<pg_pc, pg_load_end>>
    /\ UNCHANGED <<pg_pages, pg_total, pg_out, pg_btn, pg_before, pg_polls,
                   pg_click, pg_status, pg_csv, pg_seen>>
    /\ UNCHANGED varsNotPg

\* main's except and finally clauses (lines 339-343)
PG_Raise ==
    /\ pg_pc' = "failed"
    /\ pg_status' = [pg_status EXCEPT !.error = TRUE]
    /\ UNCHANGED <<pg_out, pg_csv>>

\* process_current_page, lines 222-255, and the de-duplication of main
\* (lines 313-319): total rows are read, kept of them are new candidates;
\* raised: a cell's inner_text raises
PG_Read(total, kept, raised) ==
    /\ pg_pc = "read"
    /\ kept <= total
    /\ raised => total > 0 /\ kept = 0
    /\ pg_total' = total
    /\ IF raised
       THEN PG_Raise
       ELSE /\ pg_pc' = "next"
            /\ pg_out' = pg_out + kept
            /\ UNCHANGED <<pg_status, pg_csv>>
    /\ pg_scrolls' = 0 /\ pg_last' = 0 /\ pg_same' = 0
    /\ UNCHANGED <<pg_pages, pg_load_end, pg_btn, pg_before, pg_polls, pg_click, pg_seen>>
    /\ UNCHANGED varsNotPg

\* main, lines 322-337: click_next_page returned False; the csv and the
\* status are written
PG_EndOfPages ==
    /\ pg_pc' = "done"
    /\ pg_csv' = [written |-> TRUE, rows |-> pg_out]
    /\ pg_status' = [pg_status EXCEPT !.ok = TRUE, !.pages_processed = pg_pages,
                                      !.rows_out = pg_out]

\* click_next_page, lines 161-188: the control is looked for and tested,
\* the rows are looked at (before: what was seen; NoSight when nothing
\* could be read)
PG_FindNext(btn, before) ==
    /\ pg_pc = "next"
    /\ pg_btn' = btn
    /\ IF btn.kind = "absent" \/ pager_disabled(btn)
       THEN /\ before = NoSight
            /\ PG_EndOfPages
            /\ UNCHANGED <<pg_before, pg_click>>
       ELSE /\ pg_pc' = "click"
            /\ pg_before' = before
            /\ UNCHANGED <<pg_click, pg_status, pg_csv>>
    /\ pg_seen' = NoSight
    /\ pg_load_end' = "none" /\ pg_total' = 0
    /\ UNCHANGED <<pg_pages, pg_scrolls, pg_last, pg_same, pg_out, pg_polls>>
    /\ UNCHANGED varsNotPg

\* click_next_page, lines 190-194: btn.click(); an exception gives False
PG_Click(raised) ==
    /\ pg_pc = "click"
    /\ IF raised
       THEN pg_click' = "raised" /\ PG_EndOfPages
       ELSE /\ pg_click' = "clicked"
            /\ pg_pc' = "poll"
            /\ UNCHANGED <<pg_status, pg_csv>>
    /\ pg_polls' = 0
    /\ UNCHANGED <<pg_pages, pg_scrolls, pg_last, pg_same, pg_load_end, pg_total,
                   pg_out, pg_btn, pg_before, pg_seen>>
    /\ UNCHANGED varsNotPg

\* click_next_page, lines 196-208: one poll.  seen: the rows could be
\* looked at, after is what was seen.  On a change the next page is
\* processed; after max_polls polls without one, False is returned.
PG_Poll(seen, after) ==
    /\ pg_pc = "poll"
    /\ ~seen => after = NoSight
    /\ seen => after.cnt > 0
    /\ IF seen /\ page_changed(pg_before, after)
       THEN /\ pg_pages < MaxGridPages
            /\ pg_pc' = "locate"
            /\ pg_pages' = pg_pages + 1
            /\ pg_scrolls' = 0 /\ pg_last' = 0 /\ pg_same' = 0
            /\ pg_load_end' = "none" /\ pg_total' = 0
            /\ pg_btn' = NoButton /\ pg_before' = NoSight /\ pg_polls' = 0
            /\ pg_click' = "none"
            /\ UNCHANGED <<pg_status, pg_csv>>
       ELSE /\ pg_polls' = pg_polls + 1
            /\ IF pg_polls + 1 >= max_polls
               THEN PG_EndOfPages
               ELSE UNCHANGED <<pg_pc, pg_status, pg_csv>>
            /\ UNCHANGED <<pg_pages, pg_scrolls, pg_last, pg_same, pg_load_end,
                           pg_total, pg_btn, pg_before, pg_click>>
    /\ pg_seen' = after
    /\ UNCHANGED pg_out
    /\ UNCHANGED varsNotPg

NextPaging ==
    \/ \E found \in BOOLEAN : PG_Locate(found)
    \/ \E found \in BOOLEAN : PG_Scroller(found)
    \/ \E raised \in BOOLEAN, count \in RowCounts : PG_Scroll(raised, count)
    \/ \E total \in RowCounts, kept \in RowCounts, raised \in BOOLEAN :
           PG_Read(total, kept, raised)
    \/ \E btn \in Buttons, before \in Sights : PG_FindNext(btn, before)
    \/ \E raised \in BOOLEAN : PG_Click(raised)
    \/ \E seen \in BOOLEAN, after \in Sights : PG_Poll(seen, after)

-----------------------------------------------------------------------------
(* The browser context of a stage: main of src/step3_rows_sample.py        *)
(* (lines 268-345) and main of src/step4_opening_url.py (lines 321-449),   *)
(* reduced to where the context is acquired, used and closed.              *)

(* Bound of the sessions explored.                                         *)
MaxWork == 3     \* pages (Harvester) or candidates (Enricher) processed

Stages == {"harvester", "enricher"}

\* how the processing of one page or one candidate may end
WorkEnds(stage) ==
    IF stage = "harvester" THEN {"page", "raised"}
    ELSE {"written", "skipped", "errored"}

IdleSs ==
    /\ ss_stage = "none" /\ ss_pc = "idle" /\ ss_ctx = "none" /\ ss_closes = 0
    /\ ss_path = "none" /\ ss_work = <<>> /\ ss_late = FALSE

SessionStart ==
    /\ ss_stage \in Stages /\ ss_pc = "acquire" /\ ss_ctx = "none" /\ ss_closes = 0
    /\ ss_path = "none" /\ ss_work = <<>> /\ ss_late = FALSE

\* A mutation of runs_finally: the context is closed on the normal path only.
runs_finally_normal_only(path) == path = "normal"

\* the finally clause (step3 line 342, step4 line 440) runs however the try
\* block is left
runs_finally(path) == path \in {"normal", "fatal", "exception"}

\* the try block is left on the given path
SS_Leave(path) ==
    /\ ss_path' = path
    /\ ss_pc' = "finally"

\* a call on the page or the context is made at this point of main
SS_PageOp == ss_late' = (ss_late \/ ss_ctx # "open")

\* step4 lines 337-339: without the input file main returns before a context
\* exists; step3 line 279, step4 line 361: make_context
SS_Acquire(input_found) ==
    /\ ss_pc = "acquire"
    /\ ~input_found => ss_stage = "enricher"
    /\ IF input_found
       THEN ss_pc' = "setup" /\ ss_ctx' = "open" /\ UNCHANGED ss_path
       ELSE ss_pc' = "ended" /\ ss_path' = "no_input" /\ UNCHANGED ss_ctx
    /\ UNCHANGED <<ss_stage, ss_closes, ss_work, ss_late>>
    /\ UNCHANGED varsNotSs

\* step3 line 280, step4 lines 362-365: the calls between make_context and
\* the try block; an exception there leaves main with no finally clause
SS_Setup(raised) ==
    /\ ss_pc = "setup"
    /\ SS_PageOp
    /\ IF raised
       THEN ss_pc' = "ended" /\ ss_path' = "setup"
       ELSE ss_pc' = "login" /\ UNCHANGED ss_path
    /\ UNCHANGED <<ss_stage, ss_ctx, ss_closes, ss_work>>
    /\ UNCHANGED varsNotSs

\* step3 line 282, step4 line 369: login(page)
SS_Login(raised) ==
    /\ ss_pc = "login"
    /\ SS_PageOp
    /\ IF raised
       THEN SS_Leave("fatal")
       ELSE /\ ss_pc' = IF ss_stage = "harvester" THEN "open" ELSE "work"
            /\ UNCHANGED ss_path
    /\ UNCHANGED <<ss_stage, ss_ctx, ss_closes, ss_work>>
    /\ UNCHANGED varsNotSs

\* step3 lines 283-307: the list is opened, the headers mapped, the columns
\* resolved; RuntimeError when headers or columns are missing
SS_Open(columns_found) ==
    /\ ss_pc = "open"
    /\ SS_PageOp
    /\ IF columns_found
       THEN ss_pc' = "work" /\ UNCHANGED ss_path
       ELSE SS_Leave("fatal")
    /\ UNCHANGED <<ss_stage, ss_ctx, ss_closes, ss_work>>
    /\ UNCHANGED varsNotSs

\* step3 lines 311-323: one page; step4 lines 371-438: one candidate, whose
\* exceptions are caught inside the loop
SS_Work(ends) ==
    /\ ss_pc = "work"
    /\ Len(ss_work) < MaxWork
    /\ ends \in WorkEnds(ss_stage)
    /\ SS_PageOp
    /\ ss_work' = Append(ss_work, ends)
    /\ IF ends = "raised"
       THEN SS_Leave("exception")
       ELSE UNCHANGED <<ss_pc, ss_path>>
    /\ UNCHANGED <<ss_stage, ss_ctx, ss_closes>>
    /\ UNCHANGED varsNotSs

\* the loop ends; step3 lines 325-337 write the csv inside the try block
SS_LoopEnds(write_raised) ==
    /\ ss_pc = "work"
    /\ write_raised => ss_stage = "harvester"
    /\ SS_Leave(IF write_raised THEN "exception" ELSE "normal")
    /\ UNCHANGED <<ss_stage, ss_ctx, ss_closes, ss_work, ss_late>>
    /\ UNCHANGED varsNotSs

\* finally: context.close()
SS_Finally ==
    /\ ss_pc = "finally"
    /\ IF runs_finally(ss_path)
       THEN ss_ctx' = "closed" /\ ss_closes' = ss_closes + 1
       ELSE UNCHANGED <<ss_ctx, ss_closes>>
    /\ ss_pc' = "after"
    /\ UNCHANGED <<ss_stage, ss_path, ss_work, ss_late>>
    /\ UNCHANGED varsNotSs

\* after the with block: step3 line 345 prints the status; step4 lines
\* 443-449 write the csv and print the status, unless login's exception
\* is on its way out of main.  None of it touches the page.
SS_After ==
    /\ ss_pc = "after"
    /\ ss_pc' = "ended"
    /\ UNCHANGED <<ss_stage, ss_ctx, ss_closes, ss_path, ss_work, ss_late>>
    /\ UNCHANGED varsNotSs

NextSession ==
    \/ \E input_found \in BOOLEAN : SS_Acquire(input_found)
    \/ \E raised \in BOOLEAN : SS_Setup(raised)
    \/ \E raised \in BOOLEAN : SS_Login(raised)
    \/ \E columns_found \in BOOLEAN : SS_Open(columns_found)
    \/ \E ends \in {"page", "raised", "written", "skipped", "errored"} : SS_Work(ends)
    \/ \E write_raised \in BOOLEAN : SS_LoopEnds(write_raised)
    \/ SS_Finally
    \/ SS_After

-----------------------------------------------------------------------------
(* The command lines of the orchestrators: parse_steps_arg and main of     *)
(* src/main.py (lines 53-130), parse_steps, run_script and cli of          *)
(* src/pw_auto/orchestrator.py (lines 17-71).  A step, once started, ends  *)
(* well, fails, or its script is missing.                                  *)

StepNumbers == 1..6

\* texts given to --steps
StepsArgs ==
    { <<"3","-","5">>,
      <<"5",",","3",",","3">>,
      <<"6","-","4",",","4">>,
      <<" ","2"," ",","," ","1">>,
      <<"9">>,
      <<"x",",","4">>,
      <<"4",",",",","5">>,
      <<"3","-">>,
      <<"-","3">>,
      <<"0","-","2">>,
      <<>>,
      <<"6">> }

\* s.split(",")
RECURSIVE split_comma(_)
split_comma(s) ==
    LET cs == {i \in 1..Len(s) : s[i] = ","}
    IN  IF cs = {} THEN <<s>>
        ELSE LET c == CHOOSE i \in cs : \A j \in cs : i <= j
             IN  <<SubSeq(s, 1, c - 1)>> \o split_comma(SubSeq(s, c + 1, Len(s)))

\* int(t): surrounding white space and one sign are accepted; ok is FALSE
\* where int raises ValueError
py_int(t) ==
    LET s == strip(t)
        signed == s # <<>> /\ Head(s) \in {"-", "+"}
        body == IF signed THEN Tail(s) ELSE s
    IN  IF AllDigits(body)
        THEN [ok |-> TRUE,
              val |-> IF signed /\ Head(s) = "-" THEN 0 - DigitsVal(body)
                      ELSE DigitsVal(body)]
        ELSE [ok |-> FALSE, val |-> 0]

\* range(min(lo, hi), max(lo, hi) + 1)
between(lo, hi) == IF lo <= hi THEN lo..hi ELSE hi..lo

\* sorted(set)
RECURSIVE sorted(_)
sorted(set) ==
    IF set = {} THEN <<>>
    ELSE LET m == CHOOSE x \in set : \A y \in set : x <= y
         IN  <<m>> \o sorted(set \ {m})

\* main.parse_steps_arg, the body of its loop for one part (lines 59-78)
wanted_of(part) ==
    LET p == strip(part)
        ds == {i \in 1..Len(p) : p[i] = "-"}
    IN  IF p = <<>> THEN {}
        ELSE IF ds # {}
        THEN LET d  == CHOOSE i \in ds : \A j \in ds : i <= j
                 lo == py_int(SubSeq(p, 1, d - 1))
                 hi == py_int(SubSeq(p, d + 1, Len(p)))
             IN  IF lo.ok /\ hi.ok
                 THEN between(lo.val, hi.val) \cap StepNumbers
                 ELSE {}
        ELSE IF py_int(p).ok THEN {py_int(p).val} \cap StepNumbers ELSE {}

\* main.parse_steps_arg (lines 53-79)
parse_steps_arg(arg) ==
    LET parts  == split_comma(arg)
        wanted == UNION {wanted_of(parts[i]) : i \in 1..Len(parts)}
    IN  IF wanted # {} THEN sorted(wanted) ELSE sorted(StepNumbers)

\* re.match(r"^(\d+)\-(\d+)$", part)
range_match(p) ==
    LET ds == {i \in 1..Len(p) : p[i] = "-"}
    IN  /\ Cardinality(ds) = 1
        /\ \A d \in ds : AllDigits(SubSeq(p, 1, d - 1)) /\ AllDigits(SubSeq(p, d + 1, Len(p)))

\* orchestrator.parse_steps, the body of its loop for one part (lines
\* 22-31); raised where int(part) raises ValueError
out_of(part) ==
    LET p == strip(part)
    IN  IF p = <<>> THEN [raised |-> FALSE, steps |-> {}]
        ELSE IF range_match(p)
        THEN LET d == CHOOSE i \in 1..Len(p) : p[i] = "-"
             IN  [raised |-> FALSE,
                  steps |-> between(DigitsVal(SubSeq(p, 1, d - 1)),
                                    DigitsVal(SubSeq(p, d + 1, Len(p))))]
        ELSE IF py_int(p).ok THEN [raised |-> FALSE, steps |-> {py_int(p).val}]
        ELSE [raised |-> TRUE, steps |-> {}]

\* orchestrator.parse_steps (lines 17-33)
parse_steps(spec) ==
    LET parts == split_comma(spec)
        outs  == [i \in 1..Len(parts) |-> out_of(parts[i])]
    IN  IF spec = <<>> THEN [raised |-> FALSE, steps |-> sorted(StepNumbers)]
        ELSE IF \E i \in 1..Len(parts) : outs[i].raised
        THEN [raised |-> TRUE, steps |-> <<>>]
        ELSE [raised |-> FALSE,
              steps |-> sorted(UNION {outs[i].steps : i \in 1..Len(parts)}
                                  \cap StepNumbers)]

\* how a step that is started may end, and the return code it gives
StepEnds == {"ok", "failed", "missing"}

rc_of(ends) == CASE ends = "ok" -> 0 [] ends = "failed" -> 1 [] ends = "missing" -> 2

\* A mutation of leaves_loop: the loop is never left early.
leaves_loop_never(ends, continue_on_error) == FALSE

\* main lines 108-112 and 117-121, cli lines 65-69: break
leaves_loop(ends, continue_on_error) == ends # "ok" /\ ~continue_on_error

IdleCl ==
    /\ cl_which = "none" /\ cl_arg = <<>> /\ cl_continue = FALSE /\ cl_pc = "idle"
    /\ cl_parsed = "none" /\ cl_steps = <<>> /\ cl_pos = 0 /\ cl_fail = 0
    /\ cl_log = <<>> /\ cl_exit = 0

CliStart ==
    /\ cl_which \in {"main", "pw_auto"} /\ cl_arg \in StepsArgs
    /\ cl_continue \in BOOLEAN /\ cl_pc = "parse"
    /\ cl_parsed = "none" /\ cl_steps = <<>> /\ cl_pos = 0 /\ cl_fail = 0
    /\ cl_log = <<>> /\ cl_exit = 0

\* main lines 86-103; cli lines 50-61: the ValueError of parse_steps is not
\* caught and ends the interpreter with status 1; with no valid step cli
\* returns 1
CL_Parse ==
    /\ cl_pc = "parse"
    /\ IF cl_which = "main"
       THEN /\ cl_steps' = parse_steps_arg(cl_arg)
            /\ cl_parsed' = "ok"
            /\ cl_pc' = "loop" /\ cl_pos' = 1
            /\ UNCHANGED cl_exit
       ELSE LET parsed == parse_steps(cl_arg)
            IN  /\ cl_steps' = parsed.steps
                /\ cl_parsed' = IF parsed.raised THEN "raised"
                                ELSE IF parsed.steps = <<>> THEN "none_valid" ELSE "ok"
                /\ IF parsed.raised \/ parsed.steps = <<>>
                   THEN cl_pc' = "exited" /\ cl_exit' = 1 /\ UNCHANGED cl_pos
                   ELSE cl_pc' = "loop" /\ cl_pos' = 1 /\ UNCHANGED cl_exit
    /\ UNCHANGED <<cl_which, cl_arg, cl_continue, cl_fail, cl_log>>
    /\ UNCHANGED varsNotCl

\* main lines 105-121; cli lines 62-70 with run_script: one step
CL_Step(ends) ==
    /\ cl_pc = "loop"
    /\ cl_pos <= Len(cl_steps)
    /\ cl_log' = Append(cl_log, [step |-> cl_steps[cl_pos], end |-> ends])
    /\ cl_fail' = IF ends = "ok" THEN cl_fail
                  ELSE IF cl_which = "main" THEN 1 ELSE rc_of(ends)
    /\ cl_pos' = IF leaves_loop(ends, cl_continue) THEN Len(cl_steps) + 1
                 ELSE cl_pos + 1
    /\ UNCHANGED <<cl_which, cl_arg, cl_continue, cl_pc, cl_parsed, cl_steps, cl_exit>>
    /\ UNCHANGED varsNotCl

\* main lines 123-130: sys.exit(1 if any_fail else 0); cli line 71
CL_Exit ==
    /\ cl_pc = "loop"
    /\ cl_pos > Len(cl_steps)
    /\ cl_pc' = "exited"
    /\ cl_exit' = cl_fail
    /\ UNCHANGED <<cl_which, cl_arg, cl_continue, cl_parsed, cl_steps, cl_pos,
                   cl_fail, cl_log>>
    /\ UNCHANGED varsNotCl

NextCli ==
    \/ CL_Parse
    \/ \E ends \in StepEnds : CL_Step(ends)
    \/ CL_Exit

-----------------------------------------------------------------------------
(* stream_cmd of src/pw_auto/ui_app.py (lines 52-80): a worker thread      *)
(* launches the subprocess, copies its output line by line into a queue    *)
(* and ends with the exit-code line and the sentinel None; the calling     *)
(* thread takes the items off the queue until it meets the sentinel.  The  *)
(* subprocess, the worker and the consuming loop run concurrently; each    *)
(* access to the pipe or to the queue is one step.                         *)

\* the number of lines the subprocess writes is at most MaxLines
MaxLines == 2

\* the lines a subprocess may write, as the pipe delivers them
RawLines == { <<"\n">>, <<"a", "\n">>, <<"b">> }

ExitCodes == {0, 1}

\* line.rstrip("\n")
RECURSIVE rstrip_nl(_)
rstrip_nl(s) ==
    IF s # <<>> /\ s[Len(s)] = "\n" THEN rstrip_nl(SubSeq(s, 1, Len(s) - 1)) ELSE s

\* the items put on the queue
LineItem(text)  == [kind |-> "line", text |-> text]
ExitItem(code)  == [kind |-> "exit", text |-> ToDec(code)]
LauncherItem    == [kind |-> "launcher", text |-> <<"e">>]
NoneItem        == [kind |-> "none", text |-> <<>>]

\* A mutation of is_sentinel: "if not item" in place of "if item is None".
is_sentinel_falsy(item) == item.kind = "none" \/ item.text = <<>>

\* line 76: item is None
is_sentinel(item) == item.kind = "none"

IdleSc ==
    /\ sc_worker = "idle" /\ sc_loop = "idle" /\ sc_proc = "none"
    /\ sc_pipe = <<>> /\ sc_line = <<>> /\ sc_q = <<>> /\ sc_lines = <<>>
    /\ sc_code = 0 /\ sc_produced = <<>> /\ sc_read_raised = FALSE /\ sc_puts = <<>>

StreamStart ==
    /\ sc_worker = "launch" /\ sc_loop = "get" /\ sc_proc = "none"
    /\ sc_pipe = <<>> /\ sc_line = <<>> /\ sc_q = <<>> /\ sc_lines = <<>>
    /\ sc_code = 0 /\ sc_produced = <<>> /\ sc_read_raised = FALSE /\ sc_puts = <<>>

\* q.put(item)
q_put(item) == sc_q' = Append(sc_q, item) /\ sc_puts' = Append(sc_puts, item)

(* ---- the subprocess ---- *)

\* the subprocess writes one line to its standard output
SUB_Write(line) ==
    /\ sc_proc = "running"
    /\ Len(sc_produced) < MaxLines
    /\ sc_produced # <<>> =>
          LET last == sc_produced[Len(sc_produced)] IN last[Len(last)] = "\n"
    /\ sc_pipe' = Append(sc_pipe, line)
    /\ sc_produced' = Append(sc_produced, line)
    /\ UNCHANGED <<sc_worker, sc_loop, sc_proc, sc_line, sc_q, sc_lines, sc_code,
                   sc_read_raised, sc_puts>>
    /\ UNCHANGED varsNotSc

\* the subprocess closes its standard output and keeps running
SUB_Close ==
    /\ sc_proc = "running"
    /\ sc_proc' = "closed"
    /\ UNCHANGED <<sc_worker, sc_loop, sc_pipe, sc_line, sc_q, sc_lines, sc_code,
                   sc_produced, sc_read_raised, sc_puts>>
    /\ UNCHANGED varsNotSc

\* the subprocess terminates with a return code
SUB_Exit(code) ==
    /\ sc_proc \in {"running", "closed"}
    /\ sc_proc' = "terminated"
    /\ sc_code' = code
    /\ UNCHANGED <<sc_worker, sc_loop, sc_pipe, sc_line, sc_q, sc_lines,
                   sc_produced, sc_read_raised, sc_puts>>
    /\ UNCHANGED varsNotSc

(* ---- worker ---- *)

\* lines 55-60: subprocess.Popen, which may raise
W_Launch(raised) ==
    /\ sc_worker = "launch"
    /\ IF raised
       THEN sc_worker' = "put_launcher" /\ UNCHANGED sc_proc
       ELSE sc_worker' = "read" /\ sc_proc' = "running"
    /\ UNCHANGED <<sc_loop, sc_pipe, sc_line, sc_q, sc_lines, sc_code, sc_produced,
                   sc_read_raised, sc_puts>>
    /\ UNCHANGED varsNotSc

\* line 61: q.put(f"[launcher error] {e}")
W_PutLauncher ==
    /\ sc_worker = "put_launcher"
    /\ q_put(LauncherItem)
    /\ sc_worker' = "put_none"
    /\ UNCHANGED <<sc_loop, sc_proc, sc_pipe, sc_line, sc_lines, sc_code, sc_produced,
                   sc_read_raised>>
    /\ UNCHANGED varsNotSc

\* line 65: the next line of proc.stdout; decoding it may raise, and the
\* finally clause is entered
W_Read(raised) ==
    /\ sc_worker = "read"
    /\ sc_pipe # <<>>
    /\ sc_pipe' = Tail(sc_pipe)
    /\ IF raised
       THEN sc_worker' = "wait" /\ sc_read_raised' = TRUE /\ UNCHANGED sc_line
       ELSE sc_worker' = "put_line" /\ sc_line' = Head(sc_pipe) /\ UNCHANGED sc_read_raised
    /\ UNCHANGED <<sc_loop, sc_proc, sc_q, sc_lines, sc_code, sc_produced, sc_puts>>
    /\ UNCHANGED varsNotSc

\* line 66: q.put(line.rstrip("\n"))
W_PutLine ==
    /\ sc_worker = "put_line"
    /\ q_put(LineItem(rstrip_nl(sc_line)))
    /\ sc_worker' = "read"
    /\ UNCHANGED <<sc_loop, sc_proc, sc_pipe, sc_line, sc_lines, sc_code, sc_produced,
                   sc_read_raised>>
    /\ UNCHANGED varsNotSc

\* line 65: the end of proc.stdout: the pipe is empty and closed
W_Eof ==
    /\ sc_worker = "read"
    /\ sc_pipe = <<>>
    /\ sc_proc \in {"closed", "terminated"}
    /\ sc_worker' = "wait"
    /\ UNCHANGED <<sc_loop, sc_proc, sc_pipe, sc_line, sc_q, sc_lines, sc_code,
                   sc_produced, sc_read_raised, sc_puts>>
    /\ UNCHANGED varsNotSc

\* line 68: proc.wait() returns once the subprocess has terminated
W_Wait ==
    /\ sc_worker = "wait"
    /\ sc_proc = "terminated"
    /\ sc_worker' = "put_exit"
    /\ UNCHANGED <<sc_loop, sc_proc, sc_pipe, sc_line, sc_q, sc_lines, sc_code,
                   sc_produced, sc_read_raised, sc_puts>>
    /\ UNCHANGED varsNotSc

\* line 69: q.put(f"[exit code] {proc.returncode}")
W_PutExit ==
    /\ sc_worker = "put_exit"
    /\ q_put(ExitItem(sc_code))
    /\ sc_worker' = "put_none"
    /\ UNCHANGED <<sc_loop, sc_proc, sc_pipe, sc_line, sc_lines, sc_code, sc_produced,
                   sc_read_raised>>
    /\ UNCHANGED varsNotSc

\* lines 62 and 70: q.put(None), and the worker ends
W_PutNone ==
    /\ sc_worker = "put_none"
    /\ q_put(NoneItem)
    /\ sc_worker' = "done"
    /\ UNCHANGED <<sc_loop, sc_proc, sc_pipe, sc_line, sc_lines, sc_code, sc_produced,
                   sc_read_raised>>
    /\ UNCHANGED varsNotSc

worker ==
    \/ \E raised \in BOOLEAN : W_Launch(raised)
    \/ W_PutLauncher
    \/ \E raised \in BOOLEAN : W_Read(raised)
    \/ W_PutLine
    \/ W_Eof
    \/ W_Wait
    \/ W_PutExit
    \/ W_PutNone

(* ---- the consuming loop ---- *)

\* lines 74-79: q.get() blocks while the queue is empty
L_Get ==
    /\ sc_loop = "get"
    /\ sc_q # <<>>
    /\ sc_q' = Tail(sc_q)
    /\ IF is_sentinel(Head(sc_q))
       THEN sc_loop' = "returned" /\ UNCHANGED sc_lines
       ELSE sc_lines' = Append(sc_lines, Head(sc_q)) /\ UNCHANGED sc_loop
    /\ UNCHANGED <<sc_worker, sc_proc, sc_pipe, sc_line, sc_code, sc_produced,
                   sc_read_raised, sc_puts>>
    /\ UNCHANGED varsNotSc

NextStream ==
    \/ \E line \in RawLines : SUB_Write(line)
    \/ SUB_Close
    \/ \E code \in ExitCodes : SUB_Exit(code)
    \/ worker
    \/ L_Get

-----------------------------------------------------------------------------
(* Specifications: one per stage.                                          *)

\* the idle values of everything added after the four stages
IdleMore == IdleS /\ IdleO /\ IdleW /\ IdleOw /\ IdleRp /\ IdleCi /\ IdleAm /\ IdleSg /\ IdlePg /\ IdleSs /\ IdleCl /\ IdleSc

InitHarvest == HarvestStart /\ IdleE /\ IdleR /\ IdleG /\ IdleMore
SpecHarvest == InitHarvest /\ [][NextHarvest]_vars

InitEnrich == EnrichStart /\ IdleH /\ IdleR /\ IdleG /\ IdleMore
SpecEnrich == InitEnrich /\ [][NextEnrich]_vars

InitReconcile == ReconcileStart /\ IdleH /\ IdleE /\ IdleG /\ IdleMore
SpecReconcile == InitReconcile /\ [][NextReconcile]_vars

InitGenerate == GenerateStart /\ IdleH /\ IdleE /\ IdleR /\ IdleMore
SpecGenerate == InitGenerate /\ [][NextGenerate]_vars

IdleStages == IdleH /\ IdleE /\ IdleR /\ IdleG

InitScript == ScriptStart /\ IdleStages /\ IdleO /\ IdleW /\ IdleOw /\ IdleRp /\ IdleCi /\ IdleAm /\ IdleSg /\ IdlePg /\ IdleSs /\ IdleCl /\ IdleSc
SpecScript == InitScript /\ [][NextScript]_vars

InitOrchestrator == OrchestratorStart /\ IdleStages /\ IdleS /\ IdleW /\ IdleOw /\ IdleRp /\ IdleCi /\ IdleAm /\ IdleSg /\ IdlePg /\ IdleSs /\ IdleCl /\ IdleSc
SpecOrchestrator == InitOrchestrator /\ [][NextOrchestrator]_vars

InitWriter == WriterStart /\ IdleStages /\ IdleS /\ IdleO /\ IdleOw /\ IdleRp /\ IdleCi /\ IdleAm /\ IdleSg /\ IdlePg /\ IdleSs /\ IdleCl /\ IdleSc
SpecWriter == InitWriter /\ [][NextWriter]_vars

InitOwner == OwnerStart /\ IdleStages /\ IdleS /\ IdleO /\ IdleW /\ IdleRp /\ IdleCi /\ IdleAm /\ IdleSg /\ IdlePg /\ IdleSs /\ IdleCl /\ IdleSc
SpecOwner == InitOwner /\ [][NextOwner]_vars

InitReplace == ReplaceStart /\ IdleStages /\ IdleS /\ IdleO /\ IdleW /\ IdleOw /\ IdleCi /\ IdleAm /\ IdleSg /\ IdlePg /\ IdleSs /\ IdleCl /\ IdleSc
SpecReplace == InitReplace /\ [][NextReplace]_vars

InitCity == CityStart /\ IdleStages /\ IdleS /\ IdleO /\ IdleW /\ IdleOw /\ IdleRp /\ IdleAm /\ IdleSg /\ IdlePg /\ IdleSs /\ IdleCl /\ IdleSc
SpecCity == InitCity /\ [][NextCity]_vars

InitAmount == AmountStart /\ IdleStages /\ IdleS /\ IdleO /\ IdleW /\ IdleOw /\ IdleRp /\ IdleCi /\ IdleSg /\ IdlePg /\ IdleSs /\ IdleCl /\ IdleSc
SpecAmount == InitAmount /\ [][NextAmount]_vars

InitGoto == GotoStart /\ IdleStages /\ IdleS /\ IdleO /\ IdleW /\ IdleOw /\ IdleRp /\ IdleCi /\ IdleAm /\ IdlePg /\ IdleSs /\ IdleCl /\ IdleSc
SpecGoto == InitGoto /\ [][NextGoto]_vars /\ WF_vars(NextGoto)

InitPaging == PagingStart /\ IdleStages /\ IdleS /\ IdleO /\ IdleW /\ IdleOw /\ IdleRp /\ IdleCi /\ IdleAm /\ IdleSg /\ IdleSs /\ IdleCl /\ IdleSc
SpecPaging == InitPaging /\ [][NextPaging]_vars

InitSession == SessionStart /\ IdleStages /\ IdleS /\ IdleO /\ IdleW /\ IdleOw /\ IdleRp /\ IdleCi /\ IdleAm /\ IdleSg /\ IdlePg /\ IdleCl /\ IdleSc
SpecSession == InitSession /\ [][NextSession]_vars

InitCli == CliStart /\ IdleStages /\ IdleS /\ IdleO /\ IdleW /\ IdleOw /\ IdleRp /\ IdleCi /\ IdleAm /\ IdleSg /\ IdlePg /\ IdleSs /\ IdleSc
SpecCli == InitCli /\ [][NextCli]_vars

InitStream == StreamStart /\ IdleStages /\ IdleS /\ IdleO /\ IdleW /\ IdleOw /\ IdleRp /\ IdleCi /\ IdleAm /\ IdleSg /\ IdlePg /\ IdleSs /\ IdleCl
\* the worker is a thread of its own and the loop runs in the calling thread:
\* each is scheduled as long as it can take a step
SpecStream == InitStream /\ [][NextStream]_vars /\ WF_vars(worker) /\ WF_vars(L_Get)

-----------------------------------------------------------------------------
(* ---- Claims about the Grid Harvester ---------------------------------- *)

RowsOf(seq) == {seq[i] : i \in 1..Len(seq)}

\* C1: a grid row passes the filter iff its status text contains "occupied"
\* in any letter case and its jurisdiction text contains "alameda" or
\* "contra costa" up to case and whitespace; no record in the output stems
\* from a row that failed, and once the run is done every qualifying row is
\* represented in the output by a record of its identity.
C1_FilterIff ==
    /\ s3_nread > 0 =>
          (s3_last.kept <=> (s3_last.status_ok /\ s3_last.county_ok))
    /\ \A r \in RowsOf(s3_out_rows \o s3_page_rows) :
          \E f \in s3_first : f.id = Identity(r)
    /\ s3_pc = "done" =>
          {Identity(r) : r \in RowsOf(s3_csv.rows)} = {f.id : f \in s3_first}

\* C1 witness: a finished run that wrote a qualifying row and whose last row,
\* occupied but of a jurisdiction outside the whitelist, was rejected.
C1_Witness ==
    /\ s3_pc = "done" /\ s3_csv.rows # <<>>
    /\ s3_last.status_ok /\ ~s3_last.county_ok /\ ~s3_last.kept

SameAttributes(r, f) ==
    /\ r.unit_name = f.links.unit_name /\ r.unit_href = f.links.unit_href
    /\ r.portfolio_name = f.links.portfolio_name
    /\ r.portfolio_href = f.links.portfolio_href
    /\ r.lease_name = f.links.lease_name /\ r.lease_href = f.links.lease_href
    /\ r.building_county = f.county

\* C2: the output never holds two records of one identity (lease link, or
\* unit link and portfolio link when the lease link is absent); each record
\* carries the names, links and jurisdiction of the first qualifying row of
\* its identity; and every identity seen on the committed pages has a record.
C2_Dedup ==
    /\ \A i, j \in 1..Len(s3_out_rows) :
          Identity(s3_out_rows[i]) = Identity(s3_out_rows[j]) => i = j
    /\ \A i \in 1..Len(s3_out_rows) :
          \E f \in s3_first :
              f.id = Identity(s3_out_rows[i]) /\ SameAttributes(s3_out_rows[i], f)
    /\ s3_page_rows = <<>> =>
          \A f \in s3_first : \E i \in 1..Len(s3_out_rows) :
              Identity(s3_out_rows[i]) = f.id

\* C2 witness: a finished run over two pages in which three rows passed the
\* filter and collapsed to two records, one identified by its lease link and
\* one by its unit and portfolio links.
C2_Witness ==
    /\ s3_pc = "done" /\ s3_pages = 2 /\ s3_nkept = 3
    /\ Len(s3_csv.rows) = 2
    /\ \E i, j \in 1..2 : /\ Identity(s3_csv.rows[i])[1] = "lease"
                          /\ Identity(s3_csv.rows[j])[1] = "pair"

(* ---- Claims about the Detail Enricher --------------------------------- *)
LogIdx == 1..Len(s4_log)
Entries == {s4_log[k] : k \in LogIdx}
Emitted == SelectSeq(s4_log, LAMBDA e : e.fate = "emitted")
CountFate(fate) == Cardinality({k \in LogIdx : s4_log[k].fate = fate})

\* the amount the lease page of row i shows, as safe_float reads it
ShownAmount(i) == safe_float(strip(s4_site[strip(s4_rows[i].lease_href)]))
HasLease(i) == strip(s4_rows[i].lease_href) # <<>>
InOutput(i) ==
    \E k \in 1..Len(s4_out_rows) : s4_out_rows[k].lease_href = strip(s4_rows[i].lease_href)

\* C3: a candidate is emitted only if the amount parsed from its lease page
\* is strictly greater than the threshold; at exactly the threshold it is
\* counted as skipped and not emitted, one cent above it passes the gate.  The
\* total_unpaid emitted is the parsed amount rounded to two decimals: never
\* negative, never below the threshold, and greater than the threshold
\* whenever the page amount has no more than two decimals.
C3_StrictGate ==
    /\ Len(Emitted) = Len(s4_out_rows)
    /\ \A e \in Entries :
          /\ e.fate = "emitted" => e.amount > ThresholdMills
          /\ (e.read /\ e.amount <= ThresholdMills) => e.fate = "skipped"
          /\ (e.read /\ e.amount > ThresholdMills) => e.fate \in {"emitted", "error"}
    /\ s4_status.skipped_total_unpaid_le_1000 = CountFate("skipped")
    /\ \A k \in 1..Len(s4_out_rows) :
          LET total == safe_float(s4_out_rows[k].total_unpaid)
              amount == Emitted[k].amount
          IN  /\ s4_out_rows[k].lease_href = Emitted[k].lease_url
              /\ total >= ThresholdMills /\ total >= 0
              /\ total % 10 = 0
              /\ total - amount \in -4..5
              /\ amount % 10 = 0 => (total = amount /\ total > ThresholdMills)

\* C3 witness: a finished run that skipped a candidate showing exactly the
\* threshold and emitted one showing one cent more.
C3_Witness ==
    /\ s4_pc = "done"
    /\ \E e \in Entries : e.fate = "skipped" /\ e.read /\ e.lease_nav = "true"
                          /\ e.amount = ThresholdMills
    /\ \E k \in 1..Len(s4_csv.rows) :
          /\ Emitted[k].amount = ThresholdMills + 10
          /\ s4_csv.rows[k].total_unpaid = <<"1","0","0","0",".","0","1">>
    /\ s4_status.skipped_total_unpaid_le_1000 = 1

\* C3 as first stated: every emitted total_unpaid is greater than the threshold.
C3_AsStated ==
    \A k \in 1..Len(s4_out_rows) :
        safe_float(s4_out_rows[k].total_unpaid) > ThresholdMills

UnitFailed(e) == e.unit_nav = "raise"
PortfolioFailed(e) == e.portfolio_nav \in {"raise", "scrape_raise"}

C6_SessionLossSurfaced ==
    /\ \A e \in Entries : e.lease_nav = "false" => e.fate = "error"
    /\ s4_status.skipped_total_unpaid_le_1000 =
          Cardinality({k \in LogIdx : s4_log[k].fate = "skipped" /\ s4_log[k].lease_nav = "true"})

(* ---- Claims about the Reconciler -------------------------------------- *)
PopIdx == 1..Len(s5_step3_rows)
Done5 == 1..Len(s5_out_rows)
\* the county, the normalized name and the normalized alias tokens of the
\* candidates
PopCounty == [i \in PopIdx |-> strip(s5_step3_rows[i].building_county)]
PopName == [i \in PopIdx |-> norm(s5_step3_rows[i].lease_name)]
PopAliases ==
    [i \in PopIdx |-> {norm(t) : t \in RowsOf(split_aliases(s5_step3_rows[i].lease_name))}]
CountyOf(i) == PopCounty[i]
NameOf(i) == PopName[i]

\* the name a script looks up for an enriched record, normalized
KeyOf(r) == IF s5_copy = "other_details" THEN norm(r.tenant_name) ELSE norm(r.lease_name)
CutoffOf == IF s5_copy = "other_details" THEN cutoff_other_details
            ELSE cutoff_generate_notices

\* candidate i has a jurisdiction and the lease link of record r
LinkMatch(i, r) ==
    /\ CountyOf(i) # <<>>
    /\ strip(r.lease_href) # <<>>
    /\ strip(s5_step3_rows[i].lease_href) = strip(r.lease_href)

\* the full normalized name of candidate i is the name looked up
NameMatch(i, r) ==
    CountyOf(i) # <<>> /\ KeyOf(r) # <<>> /\ NameOf(i) = KeyOf(r)

\* the name looked up is one alias token of candidate i's name
AliasMatch(i, r) ==
    /\ CountyOf(i) # <<>> /\ KeyOf(r) # <<>>
    /\ KeyOf(r) \in PopAliases[i]

\* candidate i's name is similar to the name looked up, at the cutoff or above
SimilarMatch(i, r) ==
    /\ CountyOf(i) # <<>> /\ KeyOf(r) # <<>> /\ NameOf(i) # <<>>
    /\ RatioLeq(CutoffOf, ratio_of(NameOf(i), KeyOf(r)))

First(S) == CHOOSE i \in S : \A j \in S : i <= j

\* C7: when a candidate with a jurisdiction has the lease link of the
\* enriched record, the county written for the record is that candidate's,
\* whatever the names of the other candidates.
C7_LinkPreferred ==
    \A k \in Done5 : \A i \in PopIdx :
        LinkMatch(i, s5_step4_rows[k]) => s5_out_rows[k].County = CountyOf(i)

\* C7 witness: a finished run wrote, for a record whose lease link is one
\* candidate's, that candidate's county, while another candidate of another
\* county bears exactly the name looked up.
C7_Witness ==
    /\ s5_pc = "done"
    /\ \E k \in 1..Len(s5_csv.rows) : \E i, j \in PopIdx :
          /\ LinkMatch(i, s5_step4_rows[k])
          /\ NameMatch(j, s5_step4_rows[k])
          /\ ~NameMatch(i, s5_step4_rows[k])
          /\ CountyOf(j) # CountyOf(i)
          /\ s5_csv.rows[k].County = CountyOf(i)

\* C8: the tiers are consulted in the order link, full name, alias token,
\* similarity, each only when the earlier ones found nothing: without a
\* link match, a candidate whose full normalized name is the name looked up
\* gives the county, before any candidate that holds the name as an alias
\* token; without a link or name match, a candidate holding it as an alias
\* token gives the county.
C8_TierOrder ==
    \A k \in Done5 :
        LET r == s5_step4_rows[k]
            links   == {i \in PopIdx : LinkMatch(i, r)}
            names   == {i \in PopIdx : NameMatch(i, r)}
            aliases == {i \in PopIdx : AliasMatch(i, r)}
        IN  /\ (links = {} /\ names # {}) =>
                  s5_out_rows[k].County = CountyOf(First(names))
            /\ (links = {} /\ names = {} /\ aliases # {}) =>
                  s5_out_rows[k].County = CountyOf(First(aliases))

\* C9: the county written for an enriched record is the empty string or the
\* county of a candidate that matched the record by link, name, alias or
\* similarity at the cutoff or above; it is the empty string when no
\* candidate matches; every enriched record read has its output row, and a
\* finished run has written them all.
C9_NeverGuessed ==
    /\ \A k \in Done5 :
          LET r == s5_step4_rows[k]
              matching == {i \in PopIdx : \/ LinkMatch(i, r) \/ NameMatch(i, r)
                                          \/ AliasMatch(i, r) \/ SimilarMatch(i, r)}
          IN  /\ \/ s5_out_rows[k].County = <<>>
                 \/ \E i \in matching : s5_out_rows[k].County = CountyOf(i)
              /\ matching = {} => s5_out_rows[k].County = <<>>
              /\ s5_out_rows[k].TenantName = strip(r.tenant_name)
    /\ s5_pc = "rows" => Len(s5_out_rows) = s5_idx - 1
    /\ s5_pc = "done" =>
          /\ s5_csv.written /\ s5_csv.rows = s5_out_rows
          /\ Len(s5_csv.rows) = Len(s5_step4_rows)
          /\ s5_status.rows_written = Len(s5_step4_rows)

\* C9 witness: a finished run over a population of two wrote two records,
\* one with the county of a candidate that matched, one that no candidate
\* matched with the empty string.
C9_Witness ==
    /\ s5_pc = "done" /\ Len(s5_step3_rows) = 2 /\ Len(s5_csv.rows) = 2
    /\ \E k \in 1..2 :
          /\ \A i \in PopIdx : ~(\/ LinkMatch(i, s5_step4_rows[k])
                                 \/ NameMatch(i, s5_step4_rows[k])
                                 \/ AliasMatch(i, s5_step4_rows[k])
                                 \/ SimilarMatch(i, s5_step4_rows[k]))
          /\ s5_csv.rows[k].County = <<>>
    /\ \E k \in 1..2 : s5_csv.rows[k].County # <<>>

(* ---- Claims about the Document Generator ------------------------------ *)

\* C10: within one run no two records are saved to the same output path, so
\* that no document saved earlier in the run is overwritten by a later one.
C10_NoSharedPath ==
    \A i, j \in 1..Len(s6_saved) :
        s6_saved[i].path = s6_saved[j].path => i = j

\* C11: in the script the orchestrator runs, a run that has read its rows
\* ends only after every row was taken up (a row whose rendering or save
\* failed is passed over and the rows after it are still processed), and it
\* ends with ok true and exit status 0 exactly when at least one document
\* was written.
C11_FailureIsolated ==
    (gs_pc \in {"exit0", "raised"} /\ gs_idx >= 1) =>
        /\ gs_idx > Len(gs_rows)
        /\ gs_pc = "exit0" <=> Len(gs_made) > 0
        /\ (\E i \in 1..Len(gs_printed) : gs_printed[i] = [ok |-> TRUE])
               <=> Len(gs_made) > 0

(* ---- Claims about the orchestrated run --------------------------------- *)

\* C12: in a run without --continue-on-error, a Harvester that ended in its
\* except clause (the five required columns unresolved included) and an
\* Enricher that found no input artifact wrote no output, ended with a
\* failure return code, and were the last step the orchestrator started.
C12_FatalStopsRun ==
    ~o_continue_on_error =>
        \A i \in 1..Len(o_log) :
            (\/ o_log[i].step = 3 /\ o_log[i].end = "failed"
             \/ o_log[i].step = 4 /\ o_log[i].end = "no_input") =>
                /\ o_log[i].wrote = Absent
                /\ o_log[i].rc # 0
                /\ i = Len(o_log)

\* C13 as stated: every step that received or produced an artifact without
\* data rows, and met no other fault, ended with return code 0.
C13_AsStated ==
    \A i \in 1..Len(o_log) :
        ((o_log[i].read = Holding(0) \/ o_log[i].wrote = Holding(0))
            /\ o_log[i].end \notin {"crashed", "no_template"})
        => o_log[i].rc = 0

\* C13: an empty dataset is no error for the Harvester, the Enricher and the
\* generator script, which end with return code 0 (an empty csv, or no
\* document); the Reconciler given an artifact without data rows ends with
\* return code 1 and writes nothing, the orchestrator records the failure
\* and, without --continue-on-error, starts no later step.
C13_EmptyOutcome ==
    \A i \in 1..Len(o_log) :
        LET e == o_log[i]
        IN  /\ (e.step = 3 /\ e.wrote = Holding(0)) => e.rc = 0
            /\ (e.step = 4 /\ e.read = Holding(0) /\ e.end # "crashed") =>
                   e.rc = 0 /\ e.wrote = Holding(0)
            /\ (e.step = 6 /\ e.read = Holding(0) /\ e.end # "no_template") =>
                   e.rc = 0
            /\ (e.step = 5 /\ e.read = Holding(0)) =>
                   /\ e.rc = 1 /\ e.wrote = Absent /\ o_any_fail
                   /\ ~o_continue_on_error => i = Len(o_log)

\* C13 witness: a finished run of steps 3 to 6 without --continue-on-error in
\* which the Harvester and the Enricher wrote empty artifacts with return
\* code 0 and the Reconciler, given the empty artifact, was the last step.
C13_Witness ==
    /\ o_pc = "exit1" /\ ~o_continue_on_error
    /\ o_steps_to_run = <<3, 4, 5, 6>> /\ Len(o_log) = 3
    /\ o_log[1].wrote = Holding(0) /\ o_log[1].rc = 0
    /\ o_log[2].read = Holding(0) /\ o_log[2].wrote = Holding(0) /\ o_log[2].rc = 0
    /\ o_log[3].read = Holding(0) /\ o_log[3].rc = 1

(* ---- Claims about the output artifacts -------------------------------- *)

\* C14: at every point of a writer's run, the point where the process is
\* terminated included, the output artifact on disk is the complete previous
\* version or the complete new version.
C14_AtomicRewrite ==
    w_pc # "idle" =>
        \/ w_out = w_prev
        \/ w_out = FileOf(CompleteLines(w_rows))

(* ---- Claims about the look-up caches of the Enricher ------------------ *)

UnitOf(e) == strip(s4_rows[e.idx].unit_href)
PortfolioOf(e) == strip(s4_rows[e.idx].portfolio_href)
UnitVisited(e) == e.unit_nav # "none"
PortfolioVisited(e) == e.portfolio_nav # "none"

\* C15 as stated: each distinct unit link and each distinct portfolio link
\* is navigated to for at most one candidate of a run.
C15_AsStated ==
    \A i, j \in LogIdx :
        i < j =>
            /\ (UnitOf(s4_log[i]) = UnitOf(s4_log[j]) /\ UnitVisited(s4_log[i]))
                   => ~UnitVisited(s4_log[j])
            /\ (PortfolioOf(s4_log[i]) = PortfolioOf(s4_log[j])
                    /\ PortfolioVisited(s4_log[i]))
                   => ~PortfolioVisited(s4_log[j])

\* C15: once a visit of a unit link (portfolio link) has given a non-empty
\* address (owner name), no later candidate navigates to that link and every
\* later candidate emitted with that link carries that text; a link is
\* navigated to again only as long as every earlier look-up of it gave the
\* empty string or raised; the caches hold what the last visit returned.
C15_CachedOnceNonEmpty ==
    /\ \A i, j \in LogIdx :
          i < j =>
              LET a == s4_log[i]
                  b == s4_log[j]
              IN  /\ (UnitOf(a) = UnitOf(b) /\ a.unit_address # <<>>) =>
                         /\ ~UnitVisited(b)
                         /\ b.fate = "emitted" => b.unit_address = a.unit_address
                  /\ (PortfolioOf(a) = PortfolioOf(b) /\ a.owner_name # <<>>) =>
                         /\ ~PortfolioVisited(b)
                         /\ b.fate = "emitted" => b.owner_name = a.owner_name
                  /\ (UnitOf(a) = UnitOf(b) /\ UnitVisited(b)) => a.unit_address = <<>>
                  /\ (PortfolioOf(a) = PortfolioOf(b) /\ PortfolioVisited(b))
                         => a.owner_name = <<>>
    /\ \A e \in Entries :
          /\ e.unit_address # <<>> => Get(s4_cache_unit_addr, UnitOf(e)) = e.unit_address
          /\ e.owner_name # <<>> =>
                 Get(s4_cache_owner_name, PortfolioOf(e)) = e.owner_name

\* C15 witness: two candidates sharing a unit link and a portfolio link were
\* emitted; the first visited both pages and read non-empty texts, the
\* second visited neither and carries the same texts.
C15_Witness ==
    /\ Len(s4_log) = 2
    /\ UnitOf(s4_log[1]) = UnitOf(s4_log[2])
    /\ PortfolioOf(s4_log[1]) = PortfolioOf(s4_log[2])
    /\ s4_log[1].fate = "emitted" /\ s4_log[2].fate = "emitted"
    /\ s4_log[1].unit_nav = "true" /\ s4_log[1].unit_address # <<>>
    /\ s4_log[1].portfolio_nav = "true" /\ s4_log[1].owner_name # <<>>
    /\ ~UnitVisited(s4_log[2]) /\ ~PortfolioVisited(s4_log[2])
    /\ s4_log[2].unit_address = s4_log[1].unit_address
    /\ s4_log[2].owner_name = s4_log[1].owner_name

(* ---- Claims about owner resolution ------------------------------------ *)

\* C16: when the owners table found lists exactly one owner the name
\* returned is the one read from that owner's row, and when it lists two or
\* more it is the one read from the second owner's row.
C16_SecondOwner ==
    (ow_pc \in {"done", "done_after_raise"} /\ ow_page # NoOwnerTable) =>
        LET t == ow_page[1]
            compact == t.id /\ ow_pc = "done"
            found == IF compact THEN tbody_tr(t) # <<>>
                     ELSE (t.heading \/ t.head # "none")
            row == IF Len(t.owners) >= 2 THEN DataRows(t)[2] ELSE DataRows(t)[1]
        IN  (found /\ Len(t.owners) >= 1) =>
                ow_out = IF compact THEN name_compact(row) ELSE name_headered(t, row)

(* ---- Claims about token replacement ----------------------------------- *)

\* the runs that stand for a token, in the order the document is visited
RECURSIVE TokenRuns(_)
TokenRuns(doc) ==
    IF doc = <<>> THEN <<>>
    ELSE SelectSeq(Head(doc).runs, LAMBDA r : r.key # "") \o TokenRuns(Tail(doc))

\* the number of places of text where tok is written
RECURSIVE CountIn(_, _)
CountIn(text, tok) ==
    IF Len(text) < Len(tok) THEN 0
    ELSE (IF SubSeq(text, 1, Len(tok)) = tok THEN 1 ELSE 0) + CountIn(Tail(text), tok)

RECURSIVE CountInDoc(_, _)
CountInDoc(doc, tok) ==
    IF doc = <<>> THEN 0
    ELSE CountIn(join_runs(Head(doc).runs), tok) + CountInDoc(Tail(doc), tok)

\* the number of places of the template where the token of k is written
Occurrences(k) == CountInDoc(rp_template, Token(k))

\* C17: in every document saved, each place where the template holds one of
\* the ten tokens has become one run; every run of TenantAddress, AmountDue
\* and DateOfUnpaidRent is underlined; of the runs of TenantName, of Day and
\* of Month the first one met (body paragraphs, then tables, then headers,
\* then footers) is underlined and no later one is; this holds for each
\* document on its own.
C17_Underlines ==
    \A d \in 1..Len(rp_docs) :
        LET tr == TokenRuns(rp_docs[d])
        IN  /\ \A k \in MappingKeys :
                   Cardinality({i \in 1..Len(tr) : tr[i].key = k}) = Occurrences(k)
            /\ \A i \in 1..Len(tr) :
                   /\ tr[i].key \in {"TenantAddress", "AmountDue", "DateOfUnpaidRent"}
                          => tr[i].underline
                   /\ tr[i].key \in {"TenantName", "Day", "Month"}
                          => (tr[i].underline <=> \A j \in 1..(i - 1) : tr[j].key # tr[i].key)

\* C17 witness: two documents were saved from a template that holds the
\* tenant-name token in a body paragraph and again in the header, and Day
\* twice in one paragraph; in the second document too the first tenant-name
\* run is underlined and the one in the header is not.
C17_Witness ==
    /\ rp_pc = "done" /\ Len(rp_docs) = 2
    /\ Occurrences("TenantName") = 2 /\ Occurrences("Day") >= 2
    /\ Occurrences("AmountDue") >= 1
    /\ \E p, q \in 1..Len(rp_docs[2]) :
          /\ rp_docs[2][p].where = "body" /\ rp_docs[2][q].where = "header"
          /\ \E i \in 1..Len(rp_docs[2][p].runs) :
                 /\ rp_docs[2][p].runs[i].key = "TenantName"
                 /\ rp_docs[2][p].runs[i].underline
          /\ \E i \in 1..Len(rp_docs[2][q].runs) :
                 /\ rp_docs[2][q].runs[i].key = "TenantName"
                 /\ ~rp_docs[2][q].runs[i].underline

\* C18: no document saved holds the token of a supported field any more:
\* none of the ten fields of the mapping, nor the derived city.
C18_AllTokensReplaced ==
    \A d \in 1..Len(rp_docs) :
        \A p \in 1..Len(rp_docs[d]) :
            \A k \in MappingKeys \cup {"City"} :
                ~contains(join_runs(rp_docs[d][p].runs), Token(k))

(* ---- Claims about the city derivation --------------------------------- *)

\* the words before the first comma
CityWords == split_ws(strip(before_comma(strip(ci_addr))))

\* a word that holds a digit or is a street/unit keyword
HeldBack(w) ==
    LET t == lower(strip_chars(w, {" ", ".", ",", "#"}))
    IN  (\E i \in 1..Len(t) : IsDigit(t[i]))
            \/ t \in (IF ci_copy = "other_details" THEN StopOtherDetails ELSE StopGenerate)

\* the words the claim has collected: the rightmost unbroken run of words
\* that are not held back, in the order of the address
Collected ==
    LET free == {i \in 1..Len(CityWords) : ~HeldBack(CityWords[i])}
    IN  IF free = {} THEN <<>>
        ELSE LET last == CHOOSE i \in free : \A j \in free : j <= i
                 first == CHOOSE i \in 1..last :
                              /\ \A j \in i..last : j \in free
                              /\ i > 1 => (i - 1) \notin free
             IN  [k \in 1..(last - first + 1) |-> CityWords[first + k - 1]]

\* C19 as stated: the result is always the collected words in their
\* original order.
C19_AsStated ==
    ci_pc = "done" => ci_out = join_space(Collected)

\* C19: in both copies the result is the collected words in their original
\* order, joined by single spaces; when no word was collected (every word
\* before the comma holds a digit or is a keyword) the result is the last
\* word before the comma; the two addresses of the claim give "Oakland" and
\* "San Jose".
C19_CityRule ==
    ci_pc = "done" =>
        /\ Collected # <<>> => ci_out = join_space(Collected)
        /\ (Collected = <<>> /\ CityWords # <<>>) => ci_out = CityWords[Len(CityWords)]
        /\ CityWords = <<>> => ci_out = <<>>
        /\ ci_addr = Example_Oakland => ci_out = <<"O","a","k","l","a","n","d">>
        /\ ci_addr = Example_SanJose => ci_out = <<"S","a","n"," ","J","o","s","e">>

\* C19 witness: the address of the claim with a unit number between the
\* street and the city was given to the copy of the generator and "Oakland"
\* came back.
C19_Witness ==
    /\ ci_pc = "done" /\ ci_copy = "generate"
    /\ ci_addr = Example_Oakland
    /\ ci_out = <<"O","a","k","l","a","n","d">>

(* ---- Claims about amount formatting and reruns ------------------------ *)

\* text is digits in groups of three separated by commas (the first group
\* of one to three digits), a dot and exactly two digits, with an optional
\* leading "-"
MoneyShaped(text) ==
    LET body == IF text # <<>> /\ Head(text) = "-" THEN Tail(text) ELSE text
        n == Len(body)
    IN  /\ n >= 4
        /\ body[n - 2] = "." /\ IsDigit(body[n - 1]) /\ IsDigit(body[n])
        /\ \A i \in 1..(n - 3) :
               IF (n - 3 - i) % 4 = 3 THEN body[i] = "," ELSE IsDigit(body[i])
        /\ IsDigit(body[1])

FateCount(fate) ==
    Cardinality({i \in 1..Len(s4_log) : s4_log[i].fate = fate})

\* C21 as stated: at the end of every run rows_in = rows_written +
\* skipped_total_unpaid_le_1000 + errors.
C21_AsStated ==
    s4_pc = "done" =>
        s4_status.rows_in = s4_status.rows_written
                              + s4_status.skipped_total_unpaid_le_1000
                              + s4_status.errors

\* C21: at the end of a run that wrote its status, every candidate the loop
\* reached has exactly one fate; rows_written, skipped_total_unpaid_le_1000
\* and errors count the candidates written, skipped and errored, and rows_in
\* exceeds their sum by the candidates without a lease link plus the
\* candidates the loop did not reach, which happens only when the cap of
\* MAX_QUALIFIERS records was reached.
C21_Accounted ==
    s4_pc = "done" =>
        /\ \A i, j \in 1..Len(s4_log) : s4_log[i].idx = s4_log[j].idx => i = j
        /\ {s4_log[i].idx : i \in 1..Len(s4_log)} = 1..(s4_idx - 1)
        /\ s4_status.rows_written = FateCount("emitted")
        /\ s4_status.skipped_total_unpaid_le_1000 = FateCount("skipped")
        /\ s4_status.errors = FateCount("error")
        /\ s4_status.rows_in = s4_status.rows_written
                                 + s4_status.skipped_total_unpaid_le_1000
                                 + s4_status.errors
                                 + FateCount("nolease")
                                 + (Len(s4_rows) - (s4_idx - 1))
        /\ s4_idx <= Len(s4_rows) => Len(s4_out_rows) = MAX_QUALIFIERS

\* C21 witness: a run ended with one candidate errored and one without a
\* lease link, which no counter holds.
C21_Witness ==
    /\ s4_pc = "done"
    /\ s4_status.errors = 1 /\ FateCount("nolease") = 1
    /\ s4_status.rows_in = 2

(* ---- Claims about smart_goto ------------------------------------------- *)

\* the attempts made so far are within the bounds the code sets
GotoBounded ==
    /\ sg_attempt <= max_tries
    /\ sg_navs <= 2
    /\ Len(sg_trace) <= max_tries
    /\ \A i \in 1..Len(sg_trace) : sg_trace[i].navs <= 2

GotoEnds ==
    sg_pc = "ended" =>
        /\ sg_trace[Len(sg_trace)].end
               = (CASE sg_result = "true" -> "shown"
                    [] sg_result = "false" -> "relogin"
                    [] sg_result = "timeout" -> "timeout"
                    [] sg_result = "error" -> "error")
        /\ sg_result \in {"false", "timeout"} => Len(sg_trace) = max_tries
        /\ \A i \in 1..(Len(sg_trace) - 1) : sg_trace[i].end \in {"relogin", "timeout"}

LoadBounded ==
    /\ pg_scrolls <= max_scrolls
    /\ pg_pc = "scroll" => pg_same < idle_rounds /\ pg_scrolls < max_scrolls
    /\ pg_pc = "read" /\ pg_load_end = "idle" => pg_same = idle_rounds
    /\ pg_pc = "read" /\ pg_load_end = "budget" =>
           pg_scrolls = max_scrolls /\ pg_same < idle_rounds
    /\ pg_pc = "read" /\ pg_load_end = "no_scroller" => pg_scrolls = 0
    /\ pg_total > 0 => pg_load_end # "none"

\* C23 as stated: on every page whose rows are read, load_all_rows has
\* stopped because the count was unchanged 3 times or because 200 scrolls
\* were made.
C23_AsStated ==
    /\ LoadBounded
    /\ pg_pc = "read" => pg_load_end \in {"idle", "budget"}

\* C23: on every page, before any row of the page is read, load_all_rows
\* has returned: without scrolling when no scroll container is found,
\* otherwise after scrolling until the first of: the count unchanged at
\* idle_rounds = 3 consecutive measurements, max_scrolls = 200 scrolls made,
\* or a measurement of the count raising; it ends on every page after at
\* most 200 scrolls, also when the count keeps changing: every iteration
\* of its loop either ends it or adds one to the scrolls made, which never
\* exceed max_scrolls.
C23_LoadTerminates ==
    /\ [](LoadBounded
          /\ (pg_pc = "read" =>
                 pg_load_end \in {"idle", "budget", "no_scroller", "count_raised"}))
    /\ [][pg_pc = "scroll" =>
              \/ pg_pc' = "read" /\ pg_load_end' # "none"
              \/ pg_pc' = "scroll" /\ pg_scrolls' = pg_scrolls + 1]_vars

\* C23 witness: on the second page the count kept changing and
\* load_all_rows returned after 200 scrolls.
C23_Witness ==
    /\ pg_pages = 2 /\ pg_pc = "read"
    /\ pg_load_end = "budget" /\ pg_scrolls = max_scrolls

\* the control is disabled by the markers the pager uses
StructurallyDisabled(btn) ==
    /\ btn.kind = "found"
    /\ \/ contains(btn.class, W_x_item_disabled)
       \/ contains(btn.class, W_x_btn_disabled)
       \/ btn.aria = W_true
       \/ btn.disabled

\* the harvest ended as a success with the rows collected so far
HarvestWritten ==
    /\ pg_pc = "done"
    /\ pg_csv = [written |-> TRUE, rows |-> pg_out]
    /\ pg_status = [ok |-> TRUE, error |-> FALSE, pages_processed |-> pg_pages,
                    rows_out |-> pg_out]

\* C24: when the next-page control is absent or structurally disabled it is
\* not clicked, and the harvest ends after the current page with the rows
\* collected so far written and the status ok.
C24_DisabledNotClicked ==
    /\ pg_pc \in {"click", "poll", "done"}
    /\ pg_btn.kind = "absent" \/ StructurallyDisabled(pg_btn)
    => pg_click = "none" /\ HarvestWritten

\* C24 witness: on the second page the control was found with
\* aria-disabled true and no other marker, and the harvest ended with rows.
C24_Witness ==
    /\ pg_pc = "done" /\ pg_pages = 2 /\ pg_out > 0
    /\ pg_btn.kind = "found" /\ pg_btn.aria = W_true /\ ~pg_btn.disabled
    /\ ~contains(lower(pg_btn.class), W_x_item_disabled)
    /\ ~contains(lower(pg_btn.class), W_x_btn_disabled)

\* the two looks at the rows differ in count or in first-row text
Differs(before, after) == before.cnt # after.cnt \/ before.sig # after.sig

\* C25: the page count advances only from a poll, one of at most max_polls
\* = 40 after a click, that saw a row count or first-row text other than
\* those taken before the click; when max_polls polls saw no difference the
\* harvest ends with the rows collected so far written and the status ok
\* with no error.
C25_ChangeOrEnd ==
    [][ /\ pg_pages' # pg_pages =>
              /\ pg_pc = "poll" /\ pg_click = "clicked"
              /\ pg_polls < max_polls
              /\ pg_seen' # NoSight /\ Differs(pg_before, pg_seen')
        /\ pg_pc = "poll" /\ pg_pages' = pg_pages =>
              /\ pg_seen' # NoSight => ~Differs(pg_before, pg_seen')
              /\ pg_polls' = pg_polls + 1
              /\ (pg_pc' = "done") = (pg_polls' = max_polls)
              /\ pg_pc' = "done" => HarvestWritten'
              /\ pg_pc' # "done" => pg_pc' = "poll" ]_vars

\* C25 witness: on the second page the control was clicked, forty polls saw
\* no difference, and the harvest ended as a success.
C25_Witness ==
    /\ pg_pc = "done" /\ pg_pages = 2 /\ pg_click = "clicked"
    /\ pg_polls = max_polls /\ pg_seen = pg_before /\ pg_seen # NoSight
    /\ pg_status.ok /\ ~pg_status.error /\ pg_csv.written

\* a navigation to the page of the given kind starts in this step
NavStarts(target) == s4_nav'.target = target /\ s4_nav.target # target

\* C26: for every candidate the loop takes up, the lease page is the first
\* page navigated to; a navigation to the unit page or to the portfolio page
\* starts only after the amount read from the lease page exceeded the
\* threshold, and none to the unit page starts once the portfolio page has
\* been navigated to; a candidate skipped by the threshold gate has
\* navigated to neither, and the step that skips it leaves both caches as
\* they were.  The caches change only for a candidate over the threshold.
C26_LeaseFirst ==
    /\ [](\A i \in 1..Len(s4_log) :
            LET e == s4_log[i]
            IN  /\ e.fate # "nolease" => e.lease_nav # "none"
                /\ e.unit_nav # "none" \/ e.portfolio_nav # "none" =>
                       e.read /\ e.amount > ThresholdMills /\ e.lease_nav # "none"
                /\ e.fate = "skipped" =>
                       e.unit_nav = "none" /\ e.portfolio_nav = "none"
                                           /\ e.amount <= ThresholdMills)
    /\ [][ /\ NavStarts("lease") =>
                 s4_nav = NoNav /\ s4_cur = NoCur
           /\ NavStarts("unit") =>
                 /\ s4_cur.read /\ s4_cur.amount > ThresholdMills
                 /\ s4_cur.lease_nav # "none"
                 /\ s4_cur.unit_nav = "none" /\ s4_cur.portfolio_nav = "none"
           /\ NavStarts("portfolio") =>
                 /\ s4_cur.read /\ s4_cur.amount > ThresholdMills
                 /\ s4_cur.lease_nav # "none" /\ s4_cur.portfolio_nav = "none"
           /\ s4_status'.skipped_total_unpaid_le_1000
                 # s4_status.skipped_total_unpaid_le_1000 =>
                 /\ s4_nav.target = "lease"
                 /\ UNCHANGED <<s4_cache_unit_addr, s4_cache_owner_name>>
           /\ \/ s4_cache_unit_addr' # s4_cache_unit_addr
              \/ s4_cache_owner_name' # s4_cache_owner_name
              => s4_cur.read /\ s4_cur.amount > ThresholdMills ]_vars

\* C26 witness: one candidate was skipped at the gate with no further page
\* visited, another had its lease, unit and portfolio pages shown.
C26_Witness ==
    /\ Len(s4_log) = 2
    /\ s4_log[1].fate = "skipped" /\ s4_log[1].lease_nav = "true"
    /\ s4_log[1].unit_nav = "none" /\ s4_log[1].portfolio_nav = "none"
    /\ s4_log[2].fate = "emitted" /\ s4_log[2].lease_nav = "true"
    /\ s4_log[2].unit_nav = "true" /\ s4_log[2].portfolio_nav = "true"
    /\ s4_cache_unit_addr # EmptyMap

(* ---- Claims about the browser context ---------------------------------- *)

StemAt(idx) ==
    LET tenant_name == strip(gs_rows[idx].TenantName)
    IN  DATE_DIR \o <<"_">> \o
        safe_name(IF tenant_name # <<>> THEN tenant_name ELSE W_row_ \o ToDec(idx))

Numbered(stem, i) == stem \o <<"_">> \o ToDec(i) \o W_docx

\* C28: each document the script saves goes to a path at which no file
\* existed, be it of an earlier run or of this one: the path built from the
\* row when it is free, otherwise <stem>_<i>.docx for the smallest i >= 2
\* that is free; every file already there is left as it was, and the rows
\* saved so far have as many files of their own.
C28_NeverOverwrites ==
    /\ [][gs_folder' # gs_folder =>
            LET stem == StemAt(gs_idx)
                new  == DOMAIN gs_folder' \ DOMAIN gs_folder
            IN  /\ \A f \in DOMAIN gs_folder : gs_folder'[f] = gs_folder[f]
                /\ Cardinality(new) = 1
                /\ \A f \in new :
                      /\ gs_folder'[f].row = gs_idx
                      /\ IF (stem \o W_docx) \notin DOMAIN gs_folder
                         THEN f = stem \o W_docx
                         ELSE \E i \in 2..(Cardinality(DOMAIN gs_folder) + 1) :
                                 /\ f = Numbered(stem, i)
                                 /\ \A j \in 2..(i - 1) :
                                       Numbered(stem, j) \in DOMAIN gs_folder ]_vars
    /\ [](Cardinality({f \in DOMAIN gs_folder : gs_folder[f].row > 0}) = Len(gs_made))

\* C28 witness: three rows of one tenant were saved beside the document an
\* earlier run had made for that tenant: four files, the last one _4.
C28_Witness ==
    /\ Len(gs_made) = 3
    /\ \A i \in 1..3 : gs_rows[i].TenantName = T_JohnSmith
    /\ Cardinality(DOMAIN gs_folder) = 4
    /\ Numbered(DATE_DIR \o <<"_">> \o T_JohnSmith, 4) \in DOMAIN gs_folder
    /\ gs_folder[DATE_DIR \o <<"_">> \o T_JohnSmith \o W_docx].row = 0

(* ---- Claims about the orchestrators' command lines ---------------------- *)

\* a step of the run failed
SomeStepFailed == \E i \in 1..Len(cl_log) : cl_log[i].end # "ok"

\* the steps are started in ascending order, each at most once, and none
\* after a failure unless --continue-on-error is given
StartedInOrder ==
    /\ cl_pc # "parse" =>
          /\ \A i \in 1..Len(cl_steps) : cl_steps[i] \in StepNumbers
          /\ \A i \in 1..(Len(cl_steps) - 1) : cl_steps[i] < cl_steps[i + 1]
          /\ cl_parsed = "ok" =>
                \A k \in StepNumbers :
                    (\E i \in 1..Len(split_comma(cl_arg)) :
                         strip(split_comma(cl_arg)[i]) = ToDec(k))
                    => \E j \in 1..Len(cl_steps) : cl_steps[j] = k
    /\ Len(cl_log) <= Len(cl_steps)
    /\ \A i \in 1..Len(cl_log) : cl_log[i].step = cl_steps[i]
    /\ ~cl_continue => \A i \in 1..(Len(cl_log) - 1) : cl_log[i].end = "ok"
    /\ cl_pc = "exited" /\ cl_parsed = "ok" =>
          \/ Len(cl_log) = Len(cl_steps)
          \/ ~cl_continue /\ cl_log[Len(cl_log)].end # "ok"

\* C29 as stated: the order of the steps as above, and the exit status is
\* non-zero iff at least one step failed.
C29_AsStated ==
    /\ StartedInOrder
    /\ cl_pc = "exited" => (cl_exit # 0) = SomeStepFailed

\* C29: the selected steps are started in ascending step number, each at
\* most once, whatever the order or repetition in --steps; without
\* --continue-on-error none is started after the first that fails, with it
\* every selected step is started; the exit status of main.py is non-zero
\* iff a step failed, that of pw_auto's cli iff a step failed or --steps
\* selected no valid step or could not be parsed.
C29_Orchestrated ==
    /\ StartedInOrder
    /\ cl_pc = "exited" =>
          (cl_exit # 0) = (SomeStepFailed \/ cl_parsed \in {"raised", "none_valid"})
    /\ cl_parsed \in {"raised", "none_valid"} => cl_which = "pw_auto" /\ cl_log = <<>>

\* C29 witness: --steps 6-4,4 without --continue-on-error: step 4 ran, step
\* 5 failed, step 6 was not started, and main.py exited with status 1.
C29_Witness ==
    /\ cl_which = "main" /\ ~cl_continue /\ cl_pc = "exited"
    /\ cl_arg = <<"6","-","4",",","4">>
    /\ cl_steps = <<4, 5, 6>>
    /\ cl_log = <<[step |-> 4, end |-> "ok"], [step |-> 5, end |-> "failed"]>>
    /\ cl_exit = 1

(* ---- Claims about stream_cmd -------------------------------------------- *)

\* the subprocess was launched
Launched == sc_proc # "none"

\* the queue items of the first n lines the subprocess wrote
Stripped(n) == [i \in 1..n |-> LineItem(rstrip_nl(sc_produced[i]))]

\* the items put on the queue that are output lines
LinePuts == SelectSeq(sc_puts, LAMBDA item : item.kind = "line")

\* the loop appends the items in the order they were put, the sentinel is
\* put exactly once and last, and the exit-code line follows every output
\* line
QueueInOrder ==
    /\ sc_puts = (IF sc_loop = "returned" THEN sc_lines \o <<NoneItem>> ELSE sc_lines) \o sc_q
    /\ Len(LinePuts) <= Len(sc_produced)
    /\ LinePuts = Stripped(Len(LinePuts))
    /\ \A i \in 1..Len(sc_puts) :
          /\ sc_puts[i].kind = "none" => i = Len(sc_puts) /\ sc_worker = "done"
          /\ sc_puts[i].kind = "exit" =>
                /\ sc_puts[i] = ExitItem(sc_code)
                /\ sc_proc = "terminated"
                /\ SubSeq(sc_puts, 1, i - 1) = LinePuts
          /\ sc_puts[i].kind = "launcher" => i = 1 /\ ~Launched
    /\ sc_worker = "done" => sc_puts # <<>> /\ sc_puts[Len(sc_puts)] = NoneItem
    /\ sc_loop = "returned" =>
          /\ sc_worker = "done" /\ sc_q = <<>>
          /\ sc_lines = IF Launched THEN LinePuts \o <<ExitItem(sc_code)>>
                        ELSE <<LauncherItem>>

\* the loop returns once the subprocess has terminated or could not be
\* launched
LoopReturns ==
    (sc_proc = "terminated" \/ sc_worker = "put_launcher") ~> (sc_loop = "returned")

\* C30 as stated: in addition, whenever the loop has returned after a
\* launch, every line the subprocess wrote is in the log.
C30_AsStated ==
    /\ QueueInOrder
    /\ sc_loop = "returned" /\ Launched => LinePuts = Stripped(Len(sc_produced))

\* C30: for every interleaving of the subprocess, the worker and the
\* consuming loop, the log holds, in order, the output lines the worker
\* read (all the lines the subprocess wrote unless reading raised), then
\* the exit-code line; the sentinel is put exactly once and last on every
\* worker path; and the loop returns once the subprocess has terminated.
C30_Streamed ==
    /\ [](/\ QueueInOrder
          /\ sc_loop = "returned" /\ Launched /\ ~sc_read_raised
                => LinePuts = Stripped(Len(sc_produced)))
    /\ LoopReturns

\* C30 witness: the subprocess wrote an empty line and a line "a" and
\* ended with code 1; the loop returned with both lines and the exit-code
\* line in the log.
C30_Witness ==
    /\ sc_loop = "returned" /\ ~sc_read_raised
    /\ sc_produced = << <<"\n">>, <<"a", "\n">> >>
    /\ sc_lines = <<LineItem(<<>>), LineItem(<<"a">>), ExitItem(1)>>

====
